---- MODULE Spec2Model ----
(***************************************************************************)
(* DDR5 calibration engine of liblitedram (ddr5_training.c, the eye        *)
(* detection helper and the SPD parser), modelled as state machines.       *)
(*                                                                         *)
(* Module bitmasks (uint32_t) are modelled as sets of module indices:      *)
(* a & b is \cap, a | b is \cup, a & ~b is \ .                             *)
(***************************************************************************)
EXTENDS Integers, Sequences, FiniteSets, TLC

VARIABLES
    pc,                 \* position of the running procedure
    \* ---- training_ctx_t and the signal channel arrays
    training_type,      \* ctx->training_type
    ranks,              \* ctx->ranks
    modules,            \* ctx->modules
    max_delay_taps,     \* ctx->max_delay_taps
    line_count,         \* ctx->ca.line_count
    channels,           \* ctx->channels
    cs_invert,          \* ctx->cs.invert[channel]
    cs_delays,          \* ctx->cs.delays[channel][rank] = <<right, left>>
    cs_coarse_delays,   \* ctx->cs.coarse_delays[channel][rank]
    cs_final_delays,    \* ctx->cs.final_delays[channel][rank]
    ca_delays,          \* ctx->ca.delays[channel][line] = <<right, left>>
    ca_final_delays,    \* ctx->ca.final_delays[channel][line]
    \* ---- delay lines of the PHY
    cs_hw,              \* CS delay line tap count, per channel and rank
    ca_hw,              \* CA delay line tap count, per channel and line
    ck_hw,              \* CK delay line tap count, per channel
    \* ---- file-level statics of ddr5_training.c / eye_detection_helper.c
    scan,               \* helper_arr, helper_modules_*, seen_working, scan log
    \* ---- the simulated hardware the scans probe
    cs_sim,             \* CS check answer: channel -> shift -> module -> <<lo, hi>>
    ca_sim,             \* CA check answer: channel -> line -> <<lo, hi>>, both sweeps
    ca_rank_skew,       \* taps by which rank 1 answers the CA check later than rank 0
    \* ---- sdram_ddr5_cs_ca_channel_training
    keep_going,         \* KEEP_GOING_ON_DRAM_ERROR is defined
    channel,            \* the channel argument
    ret,                \* the value returned, "none" while running
    \* ---- bookkeeping of the run
    runs,               \* number of CS trainings finished
    snap,               \* what the previous CS training stored
    CS_success,         \* uint8_t CS_success of the channel training
    CA_success,         \* uint8_t CA_success of the channel training
    ca_scanned,         \* (rank, line) pairs CA training scanned, in order
    \* ---- sdram_ddr5_cs_ca_training
    CA_BUS_success,     \* uint8_t CA_BUS_success
    CS_CA_successful,   \* ctx->CS_CA_successful
    finalized,          \* channels the last CK finalization covered
    rescan,             \* what the re-scan of the last CK finalization saw
    \* ---- the other procedures, one record each
    flow,               \* sdram_ddr5_flow
    rd,                 \* read_training_data_scan of one module
    wr,                 \* module_vref_scan's final write_data_scan of one module
    eye_helper              \* eye_detection_helper.c driven on its own

vars == <<pc, training_type, ranks, modules, max_delay_taps, line_count,
          channels, keep_going, channel, ret,
          cs_invert, cs_delays, cs_coarse_delays, cs_final_delays,
          ca_delays, ca_final_delays, cs_hw, ca_hw, ck_hw, scan,
          cs_sim, ca_sim, ca_rank_skew, runs, snap, CS_success, CA_success, ca_scanned,
          CA_BUS_success, CS_CA_successful, finalized, rescan,
          flow, rd, wr, eye_helper>>

\* the procedures that are not running hold their records
Idle == [pc |-> "idle"]

others == <<flow, rd, wr, eye_helper>>

OtherInit == flow = Idle /\ rd = Idle /\ wr = Idle /\ eye_helper = Idle

----------------------------------------------------------------------------
(* C arithmetic *)

\* MAX / MIN macros
MAX(a, b) == IF a > b THEN a ELSE b

MIN(a, b) == IF a < b THEN a ELSE b

\* int division of C: truncation towards zero
CDiv(a, b) == IF a >= 0 THEN a \div b ELSE -((-a) \div b)

\* int remainder of C: sign of the dividend
CMod(a, b) == a - b * CDiv(a, b)

\* F applied to the value of x, which is computed once (a local of the C code)
With(x, F(_)) == CHOOSE r \in {F(v) : v \in {x}} : TRUE

UNSET_DELAY == 61439

HOST_DRAM == "HOST_DRAM"

HOST_RCD == "HOST_RCD"

RCD_DRAM == "RCD_DRAM"

----------------------------------------------------------------------------
(* eye_detection_helper.c: the scratch buffer is the sequence of the values *)
(* recorded since the last clear; every cell past the cursor holds 0.       *)

\* helper_arr[it]
HelperAt(arr, it) == IF it + 1 <= Len(arr) THEN arr[it + 1] ELSE 0

clear_helper_arr == << >>

set_helper_arr_value_and_advance(arr, value) == Append(arr, value)

\* two-valued: any non-zero sample of [0, max) gives 1
one_in_any(arr, max) ==
    IF \E it \in 0..(max - 1) : HelperAt(arr, it) # 0 THEN 1 ELSE 0

one_in_helper_arr(arr, max) ==
    IF HelperAt(arr, 0) # 0 THEN -1
    ELSE IF \E it \in 1..(max - 1) : HelperAt(arr, it) # 0 THEN 1
    ELSE 0

one_stride_helper_arr(arr, max) ==
    IF \E it \in 0..(max - 1) : HelperAt(arr, it) = 0
    THEN CHOOSE it \in 0..(max - 1) :
            /\ HelperAt(arr, it) = 0
            /\ \A j \in 0..(it - 1) : HelperAt(arr, j) # 0
    ELSE max

\* left is the last sample of the run instead of the first zero after it
find_eye_last_hit(arr, left, right, max) ==
    LET hits == {it \in 0..(2 * max - 1) : HelperAt(arr, it) # 0}
        r == IF right = UNSET_DELAY /\ hits # {}
             THEN CHOOSE it \in hits : \A j \in hits : it <= j
             ELSE right
        gaps == IF r = UNSET_DELAY THEN {}
                ELSE {it \in r..(2 * max - 1) : HelperAt(arr, it) = 0}
    IN [left |-> IF gaps # {}
                 THEN (CHOOSE it \in gaps : \A j \in gaps : it <= j) - 1
                 ELSE IF HelperAt(arr, 2 * max - 1) # 0 THEN 2 * max
                 ELSE left,
        right |-> r]

\* the search without the test of the last sample after the loop
find_eye_no_tail(arr, left, right, max) ==
    LET hits == {it \in 0..(2 * max - 1) : HelperAt(arr, it) # 0}
        r == IF right = UNSET_DELAY /\ hits # {}
             THEN CHOOSE it \in hits : \A j \in hits : it <= j
             ELSE right
        gaps == IF r = UNSET_DELAY THEN {}
                ELSE {it \in r..(2 * max - 1) : HelperAt(arr, it) = 0}
    IN [left |-> IF gaps # {} THEN CHOOSE it \in gaps : \A j \in gaps : it <= j
                 ELSE left,
        right |-> r]

\* the search with the test of the last sample made on every path, so that a
\* later run that reaches the end of the buffer moves left
find_eye_tail_always(arr, left, right, max) ==
    LET eye == find_eye_no_tail(arr, left, right, max)
    IN [left |-> IF HelperAt(arr, 2 * max - 1) # 0 THEN 2 * max ELSE eye.left,
        right |-> eye.right]

\* find_eye_in_helper_arr(&left, &right, max), called with the given *left, *right
find_eye_in_helper_arr(arr, left, right, max) ==
    LET hits == {it \in 0..(2 * max - 1) : HelperAt(arr, it) # 0}
        r == IF right = UNSET_DELAY /\ hits # {}
             THEN CHOOSE it \in hits : \A j \in hits : it <= j
             ELSE right
        \* with *right preset the first zero cell ends the search
        from == IF right = UNSET_DELAY THEN r ELSE 0
        gaps == IF r = UNSET_DELAY THEN {}
                ELSE {it \in from..(2 * max - 1) : HelperAt(arr, it) = 0}
        l == IF gaps # {} THEN CHOOSE it \in gaps : \A j \in gaps : it <= j
             ELSE IF HelperAt(arr, 2 * max - 1) # 0 THEN 2 * max
             ELSE left
    IN [left |-> l, right |-> r]

----------------------------------------------------------------------------
(* The simulated CS/CA channel.  The hardware answer of check depends on   *)
(* the tap the scanned delay line stands at and on the shift pattern.      *)

\* ctx->cs.check(channel, rank, 0, shift, modules, die_width) at CS tap `tap`
cs_check(sim, shift, tap, mods) ==
    {m \in 0..(mods - 1) : sim[shift][m][1] <= tap /\ tap < sim[shift][m][2]}

\* ctx->ca.check(channel, rank, address, shift_back) at CA tap `tap`: the
\* shift_back sweep covers the previous CS period, the plain sweep the next
ca_check(sim, address, shift_back, tap, max) ==
    LET pos == IF shift_back = 1 THEN tap ELSE max + tap
    IN IF sim[address][1] <= pos /\ pos < sim[address][2] THEN 1 ELSE 0

----------------------------------------------------------------------------
(* CS scan (ddr5_training.c) *)

\* a tap counts as soon as any module answers
reduce_cs_any(cs, mods) == IF \E module \in 0..(mods - 1) : module \in cs THEN 1 ELSE 0

reduce_cs(cs, mods) == IF \A module \in 0..(mods - 1) : module \in cs THEN 1 ELSE 0

\* line 98: works = works & works_ ? 0 : works | works_
CombineShifts(works, works_) ==
    IF (works \cap works_) # {} THEN {} ELSE works \cup works_

\* lines 93-95: the opposite-shift answer is kept only when it names no module
\* of helper_modules_without_shift
FilterOpposite(works_, without_shift) ==
    IF (works_ \ without_shift) = works_ THEN works_ ELSE {}

\* lines 81-86: the primary answer is kept only when it covers
\* helper_modules_without_shift and adds no module already seen
FilterPrimary(works, without_shift, seen) ==
    LET w1 == IF (works \cap without_shift) = without_shift THEN works ELSE {}
        helper == w1 \ without_shift
    IN IF (helper \ seen) = helper THEN w1 ELSE {}

\* the opposite shift is probed unless the RCD trains the DRAM
ProbesOppositeUnlessRcdDram(type) == type # RCD_DRAM

\* line 91: the opposite shift is probed unless the context trains the RCD
ProbesOpposite(type) == type # HOST_RCD

\* One iteration of the loop of CS_scan_single at tap csdly
CS_scan_tap(st, sim, shift_0101, csdly, type, mods) ==
    LET chk == cs_check(sim, shift_0101, csdly, mods)
        ws0 == IF st.seen_working THEN st.helper_modules_without_shift ELSE {}
        sn0 == IF st.seen_working THEN st.helper_modules_seen ELSE {}
        works == FilterPrimary(chk, ws0, sn0)
        ws1 == ws0 \cup works
        sn1 == sn0 \cup works
        probe == ProbesOpposite(type)
        chk_ == IF probe THEN cs_check(sim, 1 - shift_0101, csdly, mods) ELSE {}
        works_ == IF probe THEN FilterOpposite(chk_, ws1) ELSE {}
        sn2 == sn1 \cup works_
        res == reduce_cs(CombineShifts(works, works_), mods)
    IN [helper_arr |-> set_helper_arr_value_and_advance(st.helper_arr, res),
        helper_modules_without_shift |-> ws1,
        helper_modules_seen |-> sn2,
        seen_working |-> st.seen_working \/ (res = 1),
        peak |-> MAX(st.peak, Len(st.helper_arr) + 1),
        initial |-> st.initial,
        inverted |-> st.inverted,
        rank_log |-> st.rank_log,
        log |-> Append(st.log, [primary |-> chk, probed |-> probe,
                                opposite |-> chk_, works |-> res,
                                shift |-> shift_0101, tap |-> csdly])]

RECURSIVE CS_scan_from(_, _, _, _, _, _, _)
CS_scan_from(st, sim, shift_0101, csdly, max, type, mods) ==
    IF csdly >= max THEN st
    ELSE LET Rest(s) == CS_scan_from(s, sim, shift_0101, csdly + 1, max, type, mods)
         IN With(CS_scan_tap(st, sim, shift_0101, csdly, type, mods), Rest)

\* CS_scan_single: one sweep of taps 0..max_delay_taps-1; the delay line is
\* incremented after every probe and reset at the end
CS_scan_single(st, sim, shift_0101, max, type, mods) ==
    CS_scan_from(st, sim, shift_0101, 0, max, type, mods)

\* The statics as CS_scan sets them before the first sweep; initial is the
\* buffer after the initial sweep of the scan, inverted whether the scan took
\* the polarity inversion retry, rank_log what CS_training did for the ranks
\* of its rank loop so far
ScanReset == [helper_arr |-> clear_helper_arr,
              helper_modules_without_shift |-> {},
              helper_modules_seen |-> {},
              seen_working |-> FALSE,
              peak |-> 0,
              initial |-> << >>,
              inverted |-> FALSE,
              rank_log |-> << >>,
              log |-> << >>]

\* the retry is taken whenever tap 0 of the initial sweep passes
InvertConditionAnyStride(arr, max, type) ==
    /\ type = HOST_RCD
    /\ one_in_helper_arr(arr, max) = -1

\* lines 122-124: the polarity inversion retry is taken
InvertCondition(arr, max, type) ==
    /\ type = HOST_RCD
    /\ one_in_helper_arr(arr, max) = -1
    /\ one_stride_helper_arr(arr, max) < CDiv(max, 8)

\* line 125: the value written to ctx->cs.invert[channel] by the retry
InvertValue(invert) == 1

\* the switch without the clear of case -1
CS_scan_switch_no_clear(s1, sim, shift1, max, type, mods) ==
    LET class == one_in_helper_arr(s1.helper_arr, max)
        Again(s) == CS_scan_single(s, sim, shift1, max, type, mods)
    IN IF class = -1
       THEN With(CS_scan_single(s1, sim, 1 - shift1, max, type, mods), Again)
       ELSE IF class = 1
       THEN CS_scan_single(s1, sim, 1 - shift1, max, type, mods)
       ELSE With(CS_scan_single([s1 EXCEPT !.helper_arr = clear_helper_arr,
                                           !.helper_modules_without_shift = {},
                                           !.helper_modules_seen = {}],
                                sim, 1 - shift1, max, type, mods), Again)

\* The switch of CS_scan on the class of the buffer after the first sweeps
CS_scan_switch(s1, sim, shift1, max, type, mods) ==
    LET class == one_in_helper_arr(s1.helper_arr, max)
        Again(s) == CS_scan_single(s, sim, shift1, max, type, mods)
    IN IF class = -1
       \* clear, sweep the flipped shift, then fall into case 1
       THEN With(CS_scan_single([s1 EXCEPT !.helper_arr = clear_helper_arr],
                                sim, 1 - shift1, max, type, mods), Again)
       ELSE IF class = 1
       THEN CS_scan_single(s1, sim, 1 - shift1, max, type, mods)
       ELSE With(CS_scan_single([s1 EXCEPT !.helper_arr = clear_helper_arr,
                                           !.helper_modules_without_shift = {},
                                           !.helper_modules_seen = {}],
                                sim, 1 - shift1, max, type, mods), Again)

\* The polarity inversion retry of CS_scan and what follows it
CS_scan_classify(s0, sim, invert, max, type, mods) ==
    LET inv == InvertCondition(s0.helper_arr, max, type)
        invert1 == IF inv THEN InvertValue(invert) ELSE invert
        shift1 == IF inv THEN 1 ELSE invert
        Finish(s1) ==
            LET Pack(s2) == [st |-> [s2 EXCEPT !.initial = s0.helper_arr,
                                               !.inverted = inv],
                             invert |-> invert1,
                             subtract |-> (one_in_helper_arr(s1.helper_arr, max) = -1),
                             class |-> one_in_helper_arr(s1.helper_arr, max),
                             inverted |-> inv]
            IN With(CS_scan_switch(s1, sim, shift1, max, type, mods), Pack)
    IN IF inv
       THEN With(CS_scan_single([s0 EXCEPT !.helper_arr = clear_helper_arr,
                                           !.helper_modules_without_shift = {},
                                           !.helper_modules_seen = {}],
                                sim, shift1, max, type, mods), Finish)
       ELSE Finish(s0)

\* CS_scan: returns the statics after the scan, the invert flag and subtract
CS_scan(sim, invert, max, type, mods) ==
    LET Classify(s0) == CS_scan_classify(s0, sim, invert, max, type, mods)
    IN With(CS_scan_single(ScanReset, sim, invert, max, type, mods), Classify)

----------------------------------------------------------------------------
(* CA scan and CS training of one channel *)

RECURSIVE CA_scan_from(_, _, _, _, _, _)
CA_scan_from(arr, sim, address, shift_back, cadly, max) ==
    IF cadly >= max THEN arr
    ELSE LET Rest(a) == CA_scan_from(a, sim, address, shift_back, cadly + 1, max)
         IN With(set_helper_arr_value_and_advance(
                     arr, ca_check(sim, address, shift_back, cadly, max)), Rest)

\* CA_scan_single: the line's delay is reset, swept over every tap, reset again
CA_scan_single(arr, sim, address, shift_back, max) ==
    CA_scan_from(arr, sim, address, shift_back, 0, max)

\* CA_scan: clear, sweep with shift_back = 1, then with shift_back = 0
CA_scan(sim, address, max) ==
    CA_scan_single(CA_scan_single(clear_helper_arr, sim, address, 1, max),
                   sim, address, 0, max)

\* the coarse delay is the midpoint without the clamp
CoarseDelayUnclamped(right_side, left_side) == CDiv(right_side + left_side, 2)

\* lines 198-199 and 223-224
CoarseDelay(right_side, left_side) == MAX(0, CDiv(right_side + left_side, 2))

\* the cross-check moves the edges by two periods
CrossCheckShiftTwice(delays, max) == <<delays[1] + 2 * max, delays[2] + 2 * max>>

\* lines 218-219: the CS eye captured the previous clock
CrossCheckShift(delays, max) == <<delays[1] + max, delays[2] + max>>

\* the cross-check reads the edges stored by an earlier training
StaleEdges(stored, first) == stored

\* lines 207-208 store the edges of this pass in ctx->cs.delays[channel][_rank];
\* lines 218-219 read them back: `stored` held the array before the store
StoredEdges(stored, first) == first

\* lines 196-208 of one rank: the coarse delay of the edges `first` is stored
\* and programmed, then the edges are stored
CS_rank_coarse(c, _rank, first) ==
    [c EXCEPT !.coarse[_rank] = CoarseDelay(first[1], first[2]),
              !.hw[_rank] = CoarseDelay(first[1], first[2]),
              !.delays[_rank] = first]

\* lines 217-234: the correction of the cross-check on the slice c1 that
\* stands when CA_scan returns, eye0 being the window of CA line 0
CS_rank_cross_check(c, c1, _rank, first, eye0, max) ==
    IF (eye0.left - max) < 0
    THEN LET final == CrossCheckShift(StoredEdges(c.delays[_rank], first), max)
         IN [c1 EXCEPT !.coarse[_rank] = CoarseDelay(final[1], final[2]),
                       !.hw[_rank] = CoarseDelay(final[1], final[2]),
                       !.delays[_rank] = final]
    ELSE c1

\* Lines 196-234 of one rank: the edges `first` found (or copied), the statics
\* st1 and flag inv1 after the scan, and the buffer arr0 of the CA line 0 scan;
\* found is what the rank's own scan gave, for rank_log
CS_rank_store(c, _rank, first, st1, inv1, arr0, max, found) ==
    LET eye0 == find_eye_in_helper_arr(arr0, UNSET_DELAY, UNSET_DELAY, max)
        c1 == CS_rank_coarse(c, _rank, first)
        c2 == CS_rank_cross_check(c, c1, _rank, first, eye0, max)
        rec == [rank |-> _rank, failed |-> FALSE, found |-> found,
                first |-> first, coarse |-> c1.coarse[_rank], hw |-> c1.hw[_rank],
                ca0 |-> eye0, corrections |-> IF c2 = c1 THEN 0 ELSE 1]
    IN [c2 EXCEPT !.scan = [st1 EXCEPT !.helper_arr = arr0,
                                       !.peak = MAX(MAX(@, c.scan.peak), Len(arr0)),
                                       !.rank_log = Append(c.scan.rank_log, rec)],
                  !.invert = inv1,
                  !.ca0_reset = TRUE]

\* the failure test that compares with the default of eye_t
CSFailedDefaultEye(eye) == eye.left = -1 \/ eye.right = -1

\* line 182: no eye was found
CSFailed(eye) == eye.left = UNSET_DELAY \/ eye.right = UNSET_DELAY

\* the rank's own scan was not made: the edges were copied
NotScanned == [scanned |-> FALSE]

\* Lines 179-190 of a scanned rank, given the result res of CS_scan
CS_rank_scanned(c, _rank, res, casim, max) ==
    LET eye == find_eye_in_helper_arr(res.st.helper_arr, UNSET_DELAY,
                                      UNSET_DELAY, max)
        sub == IF res.subtract THEN max ELSE 0
        found == [scanned |-> TRUE, right |-> eye.right, left |-> eye.left,
                  class |-> res.class]
        Store(arr0) == CS_rank_store(c, _rank, <<eye.right - sub, eye.left - sub>>,
                                     res.st, res.invert, arr0, max, found)
    IN IF CSFailed(eye)
       THEN [c EXCEPT !.scan = [res.st EXCEPT
                                   !.peak = MAX(@, c.scan.peak),
                                   !.rank_log = Append(c.scan.rank_log,
                                        [rank |-> _rank, failed |-> TRUE,
                                         found |-> found])],
                      !.invert = res.invert,
                      !.hw[_rank] = 0, !.success = 0, !.done = TRUE]
       ELSE With(CA_scan(casim[_rank], 0, max), Store)

\* One iteration of the rank loop of CS_training on the channel slice c =
\* [delays, coarse, hw, invert, scan, success, done, ca0_reset]; casim[_rank]
\* is the CA check of the rank
CS_training_rank(c, _rank, csim, casim, max, type, mods) ==
    LET Scanned(res) == CS_rank_scanned(c, _rank, res, casim, max)
        other == IF _rank % 2 = 1 THEN _rank - 1 ELSE _rank + 1
        Copied(arr0) == CS_rank_store(c, _rank, c.delays[other], c.scan,
                                      c.invert, arr0, max, NotScanned)
    IN IF type # HOST_RCD \/ (_rank % 2) = 0
       THEN With(CS_scan(csim, c.invert, max, type, mods), Scanned)
       ELSE With(CA_scan(casim[_rank], 0, max), Copied)

RECURSIVE CS_training_from(_, _, _, _, _, _, _, _)
CS_training_from(c, _rank, nranks, csim, casim, max, type, mods) ==
    IF _rank >= nranks \/ c.done THEN c
    ELSE LET Rest(c1) == CS_training_from(c1, _rank + 1, nranks, csim, casim,
                                          max, type, mods)
         IN With(CS_training_rank(c, _rank, csim, casim, max, type, mods), Rest)

\* CS_training(ctx, channel, &success)
CS_training(c, nranks, csim, casim, max, type, mods) ==
    CS_training_from([c EXCEPT !.done = FALSE, !.ca0_reset = FALSE,
                               !.scan.rank_log = << >>],
                     0, nranks, csim, casim, max, type, mods)


----------------------------------------------------------------------------
(* CA training of one channel *)

\* line 320: no eye was found
\* failure detected against the default of eye_t instead of UNSET_DELAY
CAFailedDefaultEye(eye) == eye.left = -1 \/ eye.right = -1

CAFailed(eye) == eye.left = UNSET_DELAY \/ eye.right = UNSET_DELAY

\* the window of the rank replaces the stored one
WidenEnvelopeLast(old, right_side, left_side) == <<right_side, left_side>>

\* lines 333-337: the per-line envelope over the ranks
WidenEnvelope(old, right_side, left_side) ==
    <<IF right_side > old[1] THEN right_side ELSE old[1],
      IF left_side < old[2] THEN left_side ELSE old[2]>>

\* One (rank, address) iteration of CA_training on a = [delays, success,
\* scanned, arr, done], given the buffer arr of the line's CA_scan
CA_line_store(a, _rank, address, arr, max) ==
    LET eye == find_eye_in_helper_arr(arr, UNSET_DELAY, UNSET_DELAY, max)
        seen == Append(a.scanned, [rank |-> _rank, line |-> address])
    IN IF CAFailed(eye)
       THEN [a EXCEPT !.arr = arr, !.scanned = seen, !.success = 0, !.done = TRUE]
       ELSE [a EXCEPT !.arr = arr, !.scanned = seen,
                      !.delays[address] =
                          WidenEnvelope(@, eye.right - max, eye.left - max)]

CA_training_line(a, _rank, address, casim, max) ==
    LET Store(arr) == CA_line_store(a, _rank, address, arr, max)
    IN With(CA_scan(casim[_rank], address, max), Store)

RECURSIVE CA_training_from(_, _, _, _, _, _, _)
CA_training_from(a, _rank, address, max_rank, lines, casim, max) ==
    IF _rank >= max_rank \/ a.done THEN a
    ELSE IF address >= lines
    THEN CA_training_from(a, _rank + 1, 0, max_rank, lines, casim, max)
    ELSE LET Rest(a1) == CA_training_from(a1, _rank, address + 1, max_rank,
                                          lines, casim, max)
         IN With(CA_training_line(a, _rank, address, casim, max), Rest)

\* lines 306-309: Host->RCD trains rank 0 only
CAMaxRank(type, nranks) == IF type = HOST_RCD THEN 1 ELSE nranks

\* CA_training(ctx, channel, &success)
CA_training(a, nranks, lines, casim, max, type) ==
    CA_training_from(a, 0, 0, CAMaxRank(type, nranks), lines, casim, max)


----------------------------------------------------------------------------
(* CK finalization (ddr5_training.c) *)

\* lines 406-411: channel -1 names every channel of the context
FinalizeGroup(ch, nch) == IF ch = -1 THEN 0..(nch - 1) ELSE {ch}

\* lines 418 and 428: temp = (delays[0] + delays[1]) / 2
MidPoint(d) == CDiv(d[1] + d[2], 2)

\* line 513 fixed the start to max_delay_taps: the mutant starts the fold at 0
MinStartZero(max) == 0

\* line 513: min = ctx->max_delay_taps
MinStart(max) == max

\* lines 417-435: the midpoints of the ranks and lines of the group
Midpoints(group, csd, cad, nranks, lines) ==
    {MidPoint(csd[c][r]) : c \in group, r \in 0..(nranks - 1)}
        \cup {MidPoint(cad[c][l]) : c \in group, l \in 0..(lines - 1)}

\* lines 423 and 433: *min = MIN(*min, temp) over all of them
CS_CA_calculate_midpoints(group, csd, cad, nranks, lines, max) ==
    LET all == Midpoints(group, csd, cad, nranks, lines) \cup {MinStart(max)}
    IN CHOOSE m \in all : \A x \in all : m <= x

\* the clock delay without the remainder
NewCkDlyNoWrap(max, min) == max - min

\* line 524
NewCkDly(max, min) == CMod(max - min, max)

\* rst_dly followed by inc_dly while cntdly < n
DelayLine(n) == MAX(0, n)

\* CS_scan_single and CA_scan_single, lines 102-104 and 280-282: the sweep
\* ends with rst_dly of the scanned line
SweepLine(hw) == DelayLine(0)

\* a re-scan that leaves the line where the scan left it
RestoreNothing(hw, final) == hw

\* lines 372-374 and 385-387: rst_dly, then inc_dly while cntdly < final
RestoreLine(hw, final) == DelayLine(final)

\* CS_CA_rescan, lines 368-375, on the delay line of one rank
CS_rescan_line(hw, final) == RestoreLine(SweepLine(hw), final)

\* CS_CA_rescan, lines 377-388, on the delay line of one CA line: a scan and
\* a restore for every rank but rank 1 of Host->RCD
RECURSIVE CA_rescan_line(_, _, _, _, _)
CA_rescan_line(hw, final, _rank, nranks, type) ==
    IF _rank >= nranks THEN hw
    ELSE IF type = HOST_RCD /\ _rank = 1
    THEN CA_rescan_line(hw, final, _rank + 1, nranks, type)
    ELSE CA_rescan_line(RestoreLine(SweepLine(hw), final), final, _rank + 1,
                        nranks, type)

\* CS_CA_rescan, lines 368-375: CS_scan of every rank; the flag and the
\* statics it leaves, and whether every scan showed a window
RECURSIVE CS_rescan_from(_, _, _, _, _, _, _)
CS_rescan_from(res, _rank, nranks, sim, max, type, mods) ==
    IF _rank >= nranks THEN res
    ELSE LET Rest(r1) ==
                 CS_rescan_from(
                     [invert |-> r1.invert,
                      st |-> [r1.st EXCEPT !.peak = MAX(@, res.st.peak)],
                      valid |-> res.valid /\ ~CSFailed(find_eye_in_helper_arr(
                                    r1.st.helper_arr, UNSET_DELAY, UNSET_DELAY, max))],
                     _rank + 1, nranks, sim, max, type, mods)
         IN With(CS_scan(sim, res.invert, max, type, mods), Rest)

\* CS_CA_rescan, lines 377-388: CA_scan of every line; TRUE when every scan
\* shows a window
CA_rescan_valid(sim, lines, max) ==
    \A address \in 0..(lines - 1) :
        ~CAFailed(find_eye_in_helper_arr(CA_scan(sim, address, max), UNSET_DELAY,
                                         UNSET_DELAY, max))

----------------------------------------------------------------------------
(* sdram_ddr5_cs_ca_training and the RDIMM loop of sdram_ddr5_flow *)

\* bounds of the model
Taps == 16

MaxRuns == 2

RcdLines == 3

Shifts == {0, 1}

TrainingTypes == {HOST_DRAM, HOST_RCD, RCD_DRAM}

\* <<lo, hi>> windows with both edges in `edges`, and the empty window
Intervals(edges) == {<<0, 0>>} \cup {w \in edges \X edges : w[1] < w[2]}

\* module m answers on the window of module 0 moved right by m * skew
SkewedSim(w0, w1, skew, mods) ==
    [s \in Shifts |-> [m \in 0..(mods - 1) |->
        LET w == IF s = 0 THEN w0 ELSE w1
        IN IF w = <<0, 0>> THEN w ELSE <<w[1] + m * skew, w[2] + m * skew>>]]

\* every line answers on `win`, except line `dead`, which never answers
LineSim(win, dead) == [l \in 0..13 |-> IF l = dead THEN <<0, 0>> ELSE win]

\* the CA check of rank `rank`: every line answers `skew` taps per rank
\* later than on rank 0
RankSim(sim, skew, rank) ==
    [l \in DOMAIN sim |->
        IF sim[l] = <<0, 0>> THEN sim[l]
        ELSE <<sim[l][1] + rank * skew, sim[l][2] + rank * skew>>]

\* the CA check of the channel, rank by rank
RankSims(sim, skew) == [rank \in 0..1 |-> RankSim(sim, skew, rank)]

\* what the hardware answers to the re-scan made after CK was moved: as it
\* answered in training, or nothing at any tap
RescanCsSim(sim, answers, mods) ==
    IF answers THEN sim ELSE SkewedSim(<<0, 0>>, <<0, 0>>, 0, mods)

RescanCaSim(sim, answers) == IF answers THEN sim ELSE LineSim(<<0, 0>>, -1)

\* CA_setup_array, lines 243-251
CA_setup_array(taps, nch) ==
    [ch \in 0..(nch - 1) |-> [l \in 0..13 |-> <<-taps, taps>>]]

\* the arrays of a context before training: CA_setup_array has run
CtxInit(taps, nch) ==
    /\ cs_invert = [ch \in 0..(nch - 1) |-> 0]
    /\ cs_delays = [ch \in 0..(nch - 1) |-> [r \in 0..1 |-> <<0, 0>>]]
    /\ cs_coarse_delays = [ch \in 0..(nch - 1) |-> [r \in 0..1 |-> 0]]
    /\ cs_final_delays = [ch \in 0..(nch - 1) |-> [r \in 0..1 |-> 0]]
    /\ ca_delays = CA_setup_array(taps, nch)
    /\ ca_final_delays = [ch \in 0..(nch - 1) |-> [l \in 0..13 |-> 0]]
    /\ cs_hw = [ch \in 0..(nch - 1) |-> [r \in 0..1 |-> 0]]
    /\ ca_hw = [ch \in 0..(nch - 1) |-> [l \in 0..13 |-> 0]]
    /\ ck_hw = [ch \in 0..(nch - 1) |-> 0]
    /\ scan = ScanReset

\* no CK finalization has re-scanned yet
NoRescan == [done |-> FALSE, valid |-> TRUE]

NoSnap == [delays |-> << >>, coarse |-> << >>, success |-> 1]

ChanStart ==
    /\ channel = 0
    /\ ret = "none"
    /\ runs = 0
    /\ snap = NoSnap
    /\ CS_success = 1
    /\ CA_success = 1
    /\ CA_BUS_success = 1
    /\ CS_CA_successful = 1
    /\ finalized = {}
    /\ rescan = NoRescan
    /\ ca_scanned = << >>

ChanInit ==
    /\ pc = "begin"
    /\ ChanStart

\* the context and the simulated hardware never change, except line_count
cfg == <<training_type, ranks, modules, max_delay_taps, channels, keep_going,
         cs_sim, ca_sim, ca_rank_skew>>

\* everything CS/CA training owns
training_vars ==
    <<pc, cfg, line_count, channel, ret, cs_invert, cs_delays, cs_coarse_delays,
      cs_final_delays, ca_delays, ca_final_delays, cs_hw, ca_hw, ck_hw, scan,
      runs, snap, CS_success, CA_success, ca_scanned, CA_BUS_success,
      CS_CA_successful, finalized, rescan>>

\* CS/CA training is not running
TrainingIdle ==
    /\ pc = "idle"
    /\ ChanStart
    /\ keep_going = FALSE
    /\ training_type = HOST_DRAM
    /\ channels = 1
    /\ ranks = 1
    /\ modules = 1
    /\ max_delay_taps = Taps
    /\ line_count = 13
    /\ cs_sim = << >>
    /\ ca_sim = << >>
    /\ ca_rank_skew = 0
    /\ CtxInit(Taps, 1)

\* Channel training with a CA bus drawn from a wide family
Init ==
    /\ ChanInit
    /\ keep_going \in BOOLEAN
    /\ training_type \in TrainingTypes
    /\ channels = 1
    /\ ranks = 2
    /\ modules = 2
    /\ max_delay_taps = Taps
    /\ line_count \in (IF training_type = HOST_DRAM THEN {13} ELSE {RcdLines})
    /\ \E w \in {<<0, 0>>, <<2, 6>>} : cs_sim = <<SkewedSim(w, w, 0, 2)>>
    /\ \E win \in Intervals({1, Taps \div 2, Taps, Taps + 3, 2 * Taps}),
          dead \in {-1, 0, 2, 13} : ca_sim = <<LineSim(win, dead)>>
    /\ ca_rank_skew \in {0, 2, Taps \div 2 + 1}
    /\ CtxInit(Taps, 1)
    /\ OtherInit

\* lines 566-571; in the RDIMM loop sdram_ddr5_ca_cs_prep (line 2041) ran
\* just before
ChannelTrainingBegin ==
    /\ pc = "begin"
    /\ CS_success' = 1
    /\ CA_success' = 1
    /\ ck_hw' = [ck_hw EXCEPT ![channel] = 0]
    /\ ca_delays' = IF training_type = RCD_DRAM
                    THEN CA_setup_array(max_delay_taps, channels)
                    ELSE ca_delays
    /\ pc' = "cs"
    /\ UNCHANGED <<cfg, line_count, channel, ret, cs_invert, cs_delays,
                   cs_coarse_delays, cs_final_delays, ca_final_delays,
                   cs_hw, ca_hw, scan, runs, snap, ca_scanned,
                   CA_BUS_success, CS_CA_successful, finalized, rescan,
                   others>>

\* line 572: CS_training(ctx, channel, &CS_success); the idempotence test
\* calls it once more before anything else runs
RunCS ==
    /\ pc = "cs"
    /\ runs < MaxRuns
    /\ \E c \in {CS_training(
                  [delays |-> cs_delays[channel], coarse |-> cs_coarse_delays[channel],
                   hw |-> cs_hw[channel], invert |-> cs_invert[channel],
                   scan |-> scan, success |-> 1, done |-> FALSE,
                   ca0_reset |-> FALSE],
                  ranks, cs_sim[channel + 1],
                  RankSims(ca_sim[channel + 1], ca_rank_skew), max_delay_taps,
                  training_type, modules)} :
          /\ cs_delays' = [cs_delays EXCEPT ![channel] = c.delays]
          /\ cs_coarse_delays' = [cs_coarse_delays EXCEPT ![channel] = c.coarse]
          /\ cs_hw' = [cs_hw EXCEPT ![channel] = c.hw]
          /\ cs_invert' = [cs_invert EXCEPT ![channel] = c.invert]
          /\ scan' = c.scan
          /\ CS_success' = c.success
          /\ ca_hw' = IF c.ca0_reset THEN [ca_hw EXCEPT ![channel][0] = 0] ELSE ca_hw
    /\ snap' = [delays |-> cs_delays[channel], coarse |-> cs_coarse_delays[channel],
                success |-> CS_success]
    /\ runs' = runs + 1
    /\ UNCHANGED <<pc, cfg, line_count, channel, ret, cs_final_delays, ca_delays,
                   ca_final_delays, ck_hw, CA_success, ca_scanned,
                   CA_BUS_success, CS_CA_successful, finalized, rescan,
                   others>>

\* lines 573-578: the fail-fast return, else CA_check_lines
AfterCS ==
    /\ pc = "cs"
    /\ runs >= 1
    /\ IF ~keep_going /\ CS_success = 0
       THEN pc' = "ret" /\ ret' = FALSE /\ UNCHANGED line_count
       ELSE /\ pc' = "ca"
            /\ ret' = ret
            /\ IF training_type = HOST_DRAM
               THEN line_count' \in {13, 14}
               ELSE UNCHANGED line_count
    /\ UNCHANGED <<cfg, channel, cs_invert, cs_delays,
                   cs_coarse_delays, cs_final_delays, ca_delays, ca_final_delays,
                   cs_hw, ca_hw, ck_hw, scan, runs, snap,
                   CS_success, CA_success, ca_scanned,
                   CA_BUS_success, CS_CA_successful, finalized, rescan,
                   others>>

\* the value a build without the policy switch returns
ChannelResultFailFast(keep, cs_ok, ca_ok) == cs_ok = 1 /\ ca_ok = 1

\* lines 586-589: the value returned after both trainings ran
ChannelResult(keep, cs_ok, ca_ok) ==
    IF keep THEN TRUE ELSE (cs_ok = 1 /\ ca_ok = 1)

\* lines 579-589: CA_training(ctx, channel, &CA_success) and the return
RunCA ==
    /\ pc = "ca"
    /\ \E a \in {CA_training(
                  [delays |-> ca_delays[channel], success |-> CA_success,
                   scanned |-> << >>, arr |-> scan.helper_arr, done |-> FALSE],
                  ranks, line_count, RankSims(ca_sim[channel + 1], ca_rank_skew),
                  max_delay_taps, training_type)} :
          /\ ca_delays' = [ca_delays EXCEPT ![channel] = a.delays]
          /\ CA_success' = a.success
          /\ ca_scanned' = a.scanned
          /\ scan' = [scan EXCEPT !.helper_arr = a.arr,
                                   !.peak = MAX(@, Len(a.arr))]
          /\ ca_hw' = [ca_hw EXCEPT ![channel] =
                         [l \in 0..13 |->
                            IF \E i \in DOMAIN a.scanned : a.scanned[i].line = l
                            THEN 0 ELSE @[l]]]
          /\ ret' = ChannelResult(keep_going, CS_success, a.success)
    /\ pc' = "ret"
    /\ UNCHANGED <<cfg, line_count, channel, cs_invert, cs_delays,
                   cs_coarse_delays, cs_final_delays, ca_final_delays,
                   cs_hw, ck_hw, runs, snap, CS_success,
                   CA_BUS_success, CS_CA_successful, finalized, rescan,
                   others>>

\* C truth value of the bool returned
AsBit(b) == IF b = TRUE THEN 1 ELSE 0

\* lines 601-603: CA_BUS_success &= the value returned; under fail-fast
\* ctx->CS_CA_successful &= CA_BUS_success
BusAccumulate(keep, bus, successful, returned) ==
    LET b == IF bus = 1 /\ AsBit(returned) = 1 THEN 1 ELSE 0
    IN [bus |-> b,
        ok |-> IF keep THEN successful
               ELSE IF successful = 1 /\ b = 1 THEN 1 ELSE 0]

\* The caller takes the return value. sdram_ddr5_cs_ca_training, lines
\* 601-609: accumulate it, return on failure under fail-fast, go to the next
\* channel, finalize all channels after the last. The RDIMM loop, lines
\* 2042-2043: the value is dropped and the channel is finalized.
ChannelReturn ==
    /\ pc = "ret"
    /\ IF training_type = RCD_DRAM
       THEN /\ pc' = "ck"
            /\ UNCHANGED <<CA_BUS_success, CS_CA_successful, channel, runs, snap>>
       ELSE LET acc == BusAccumulate(keep_going, CA_BUS_success, CS_CA_successful, ret)
                bus == acc.bus
                ok == acc.ok
            IN /\ CA_BUS_success' = bus
               /\ CS_CA_successful' = ok
               /\ IF ~keep_going /\ ok = 0
                  THEN pc' = "done" /\ UNCHANGED <<channel, runs, snap>>
                  ELSE IF channel + 1 < channels
                  THEN /\ pc' = "begin"
                       /\ channel' = channel + 1
                       /\ runs' = 0
                       /\ snap' = NoSnap
                  ELSE pc' = "ck" /\ UNCHANGED <<channel, runs, snap>>
    /\ UNCHANGED <<cfg, line_count, ret, cs_invert, cs_delays,
                   cs_coarse_delays, cs_final_delays, ca_delays, ca_final_delays,
                   cs_hw, ca_hw, ck_hw, scan, CS_success, CA_success,
                   ca_scanned, finalized, rescan, others>>

\* CK_CS_CA_finalize_timings(ctx, -1) of line 609, or (ctx, channel) of line
\* 2043 followed by the step of the RDIMM loop
CK_CS_CA_finalize_timings ==
    /\ pc = "ck"
    /\ LET group == FinalizeGroup(IF training_type = RCD_DRAM THEN channel ELSE -1,
                                  channels)
           last == CHOOSE c \in group : \A d \in group : d <= c
       IN \E min \in {CS_CA_calculate_midpoints(group, cs_delays, ca_delays, ranks,
                                                line_count, max_delay_taps)},
             answers \in BOOLEAN :
          \E inv \in {[c \in group |->
                        CS_rescan_from([invert |-> cs_invert[c], st |-> scan,
                                        valid |-> TRUE], 0, ranks,
                                       RescanCsSim(cs_sim[c + 1], answers, modules),
                                       max_delay_taps, training_type, modules)]} :
            /\ cs_final_delays' =
                  [c \in DOMAIN cs_final_delays |-> [r \in 0..1 |->
                      IF c \in group /\ r < ranks
                      THEN MidPoint(cs_delays[c][r]) - min
                      ELSE cs_final_delays[c][r]]]
            /\ ca_final_delays' =
                  [c \in DOMAIN ca_final_delays |-> [l \in 0..13 |->
                      IF c \in group /\ l < line_count
                      THEN MidPoint(ca_delays[c][l]) - min
                      ELSE ca_final_delays[c][l]]]
            /\ ck_hw' = [c \in DOMAIN ck_hw |->
                           IF c \in group
                           THEN NewCkDly(max_delay_taps, min) ELSE ck_hw[c]]
            /\ cs_hw' = [c \in DOMAIN cs_hw |-> [r \in 0..1 |->
                           IF c \in group /\ r < ranks
                           THEN CS_rescan_line(
                                    DelayLine(MidPoint(cs_delays[c][r]) - min),
                                    MidPoint(cs_delays[c][r]) - min)
                           ELSE cs_hw[c][r]]]
            /\ ca_hw' = [c \in DOMAIN ca_hw |-> [l \in 0..13 |->
                           IF c \in group /\ l < line_count
                           THEN CA_rescan_line(
                                    DelayLine(MidPoint(ca_delays[c][l]) - min),
                                    MidPoint(ca_delays[c][l]) - min,
                                    0, ranks, training_type)
                           ELSE ca_hw[c][l]]]
            /\ cs_invert' = [c \in DOMAIN cs_invert |->
                               IF c \in group THEN inv[c].invert ELSE cs_invert[c]]
            /\ \E arr \in {CA_scan(RescanCaSim(ca_sim[last + 1], answers),
                                     line_count - 1, max_delay_taps)} :
                  scan' = [inv[last].st EXCEPT !.helper_arr = arr,
                                               !.peak = MAX(@, Len(arr))]
            /\ rescan' =
                  [done |-> TRUE,
                   valid |-> \A c \in group :
                       /\ inv[c].valid
                       /\ CA_rescan_valid(RescanCaSim(ca_sim[c + 1], answers),
                                          line_count, max_delay_taps)]
            /\ finalized' = group
    /\ IF training_type = RCD_DRAM /\ channel + 1 < channels
       THEN pc' = "begin" /\ channel' = channel + 1 /\ runs' = 0 /\ snap' = NoSnap
       ELSE pc' = "done" /\ UNCHANGED <<channel, runs, snap>>
    /\ UNCHANGED <<cfg, line_count, ret, cs_delays, cs_coarse_delays, ca_delays,
                   CS_success, CA_success, ca_scanned, CA_BUS_success,
                   CS_CA_successful, others>>

Next ==
    \/ ChannelTrainingBegin
    \/ RunCS
    \/ AfterCS
    \/ RunCA
    \/ ChannelReturn
    \/ CK_CS_CA_finalize_timings

Spec == Init /\ [][Next]_vars

\* Channel training with a CS bus drawn from a wide family
CsEdges == {0, 1, 3, Taps \div 2, Taps - 1, Taps}

InitCS ==
    /\ ChanInit
    /\ keep_going = FALSE
    /\ training_type \in TrainingTypes
    /\ channels = 1
    /\ ranks = (IF training_type = HOST_RCD THEN 2 ELSE 1)
    /\ modules = 2
    /\ max_delay_taps = Taps
    /\ line_count = RcdLines
    /\ \E w0 \in Intervals(CsEdges), w1 \in Intervals(CsEdges), skew \in {0, 1} :
          cs_sim = <<SkewedSim(w0, w1, skew, 2)>>
    /\ \E win \in {<<0, 0>>, <<2, 6>>, <<Taps + 2, Taps + 6>>} :
          ca_sim = <<LineSim(win, -1)>>
    /\ ca_rank_skew = 0
    /\ CtxInit(Taps, 1)
    /\ OtherInit

SpecCS == InitCS /\ [][Next]_vars

\* The direct-attach scenario: 1 channel, 1 rank, 2 modules, 32 taps; module 0
\* answers on taps [10, 22) and module 1 on [8, 20), either under both shift
\* patterns or under the primary one only; the CA bus is drawn from a family
InitE2E ==
    /\ ChanInit
    /\ keep_going \in BOOLEAN
    /\ training_type = HOST_DRAM
    /\ channels = 1
    /\ ranks = 1
    /\ modules = 2
    /\ max_delay_taps = 32
    /\ line_count = 13
    /\ cs_sim \in {<<[s \in Shifts |-> [m \in 0..1 |->
                       IF m = 0 THEN <<10, 22>> ELSE <<8, 20>>]]>>,
                   <<[s \in Shifts |-> [m \in 0..1 |->
                       IF s = 1 THEN <<0, 0>>
                       ELSE IF m = 0 THEN <<10, 22>> ELSE <<8, 20>>]]>>}
    /\ \E win \in Intervals({4 * k : k \in 0..16}) : ca_sim = <<LineSim(win, -1)>>
    /\ ca_rank_skew = 0
    /\ CtxInit(32, 1)
    /\ OtherInit

SpecE2E == InitE2E /\ [][Next]_vars

\* Two channels with their own CS and CA answers, trained and finalized
CkCsWindows == {<<0, 0>>, <<0, 4>>, <<2, 6>>, <<Taps - 3, Taps>>}

CkCaWindows == {<<0, 0>>, <<1, 5>>, <<Taps - 2, Taps + 3>>, <<Taps + 2, Taps + 7>>}

InitCK ==
    /\ ChanInit
    /\ keep_going \in BOOLEAN
    /\ training_type \in TrainingTypes
    /\ channels = 2
    /\ ranks = (IF training_type = HOST_RCD THEN 2 ELSE 1)
    /\ modules = 2
    /\ max_delay_taps = Taps
    /\ line_count = (IF training_type = HOST_DRAM THEN 13 ELSE RcdLines)
    /\ \E v0 \in CkCsWindows, v1 \in CkCsWindows :
          cs_sim = <<SkewedSim(v0, v0, 0, 2), SkewedSim(v1, v1, 0, 2)>>
    /\ \E w0 \in CkCaWindows, w1 \in CkCaWindows :
          ca_sim = <<LineSim(w0, -1), LineSim(w1, -1)>>
    /\ ca_rank_skew = 0
    /\ CtxInit(Taps, 2)
    /\ OtherInit

SpecCK == InitCK /\ [][Next]_vars

----------------------------------------------------------------------------
(* Read training of one module (ddr5_training.c) *)

ReadTaps == 4

\* MAX_READ_CYCLE_DELAY comes from the generated PHY header
MaxReadCycleDelay == 4

BEFORE == "BEFORE"

INSIDE == "INSIDE"

AFTER == "AFTER"

\* DEFAULT_EYE
DEFAULT_EYE == [state |-> BEFORE, start |-> -1, center |-> -1, end |-> -1]

InWindow(w, pos) == w[1] <= pos /\ pos < w[2]

\* captured_preamble of the PHY at read cycle delay rd_hw and DQS delay idly
captured_preamble(sim, rd_hw, idly, taps) ==
    IF InWindow(sim.pre, rd_hw * taps + idly) THEN 4 ELSE 0

\* lines 796 and 811: the readouts of every serial pattern and seed pair
ReadRepetitions == 16

\* compare_serial at the i-th readout of a pattern, line 798
compare_serial(sim, pos, i) == InWindow(sim.serial, pos)

\* compare at the i-th readout of a seed pair, line 820: a position of
\* sim.flaky passes the first readout only
compare(sim, pos, i) == InWindow(sim.lfsr, pos) /\ (pos \in sim.flaky => i < 1)

\* rd_cycle_dly_idly_check_if_works, lines 785-828: 0 when the serial readout
\* fails, 1 when only the LFSR readout fails, 3 when both pass
rd_cycle_dly_idly_check_if_works(sim, rd_hw, idly, taps) ==
    LET pos == rd_hw * taps + idly
    IN IF \E i \in 0..(ReadRepetitions - 1) : ~compare_serial(sim, pos, i) THEN 0
       ELSE IF \E i \in 0..(ReadRepetitions - 1) : ~compare(sim, pos, i) THEN 1
       ELSE 3

\* lines 872-877
PreambleStep(eye, preamble, rd_cycle_dly) ==
    IF preamble = 4 /\ eye.state = BEFORE
    THEN [eye EXCEPT !.start = rd_cycle_dly, !.state = INSIDE]
    ELSE IF preamble # 4 /\ eye.state = INSIDE
    THEN [eye EXCEPT !.state = AFTER]
    ELSE eye

RECURSIVE PreambleTaps(_, _, _, _, _)
PreambleTaps(eye, sim, rd_cycle_dly, idly, taps) ==
    IF idly >= taps THEN eye
    ELSE PreambleTaps(PreambleStep(eye, captured_preamble(sim, rd_cycle_dly, idly, taps),
                                   rd_cycle_dly),
                      sim, rd_cycle_dly, idly + 1, taps)

\* lines 851-885: rd_inc at the end of every cycle
RECURSIVE PreambleCycles(_, _, _, _)
PreambleCycles(r, sim, rd_cycle_dly, taps) ==
    IF rd_cycle_dly >= MaxReadCycleDelay \/ r.eye.state = AFTER THEN r
    ELSE PreambleCycles([eye |-> PreambleTaps(r.eye, sim, rd_cycle_dly, 0, taps),
                         hw |-> r.hw + 1],
                        sim, rd_cycle_dly + 1, taps)

\* find_read_preamble_cycle, lines 840-888: the cycle returned and the read
\* cycle delay left in the PHY
find_read_preamble_cycle(sim, taps) ==
    LET r == PreambleCycles([eye |-> DEFAULT_EYE, hw |-> 0], sim, 0, taps)
    IN [start |-> r.eye.start, rd_hw |-> r.hw]

\* an eye that takes a passing serial readout for a working position
ReadEyeStepSerial(eye, works, pos) ==
    IF works # 0 /\ eye.state = BEFORE
    THEN [eye EXCEPT !.start = pos, !.state = INSIDE]
    ELSE IF works = 0 /\ eye.state = INSIDE
    THEN [eye EXCEPT !.end = pos, !.state = AFTER]
    ELSE eye

\* lines 928-934: pos is computed from the loop counters
ReadEyeStep(eye, works, pos) ==
    IF works = 3 /\ eye.state = BEFORE
    THEN [eye EXCEPT !.start = pos, !.state = INSIDE]
    ELSE IF works # 3 /\ eye.state = INSIDE
    THEN [eye EXCEPT !.end = pos, !.state = AFTER]
    ELSE eye

\* lines 920-940: the taps of one cycle; hw is the read cycle delay the PHY
\* holds, rd_cycle_dly the loop counter
RECURSIVE ReadScanTaps(_, _, _, _, _, _)
ReadScanTaps(eye, sim, hw, rd_cycle_dly, idly, taps) ==
    IF idly >= taps THEN eye
    ELSE ReadScanTaps(
            ReadEyeStep(eye, rd_cycle_dly_idly_check_if_works(sim, hw, idly, taps),
                        rd_cycle_dly * taps + idly),
            sim, hw, rd_cycle_dly, idly + 1, taps)

\* lines 914-944: rd_inc at the end of every cycle
RECURSIVE ReadScanCycles(_, _, _, _, _)
ReadScanCycles(r, sim, rd_cycle_dly, taps, ran) ==
    IF rd_cycle_dly >= MaxReadCycleDelay \/ r.eye.state = AFTER
    THEN [r EXCEPT !.ran = ran]
    ELSE ReadScanCycles(
            [eye |-> ReadScanTaps(r.eye, sim, r.hw, rd_cycle_dly, 0, taps),
             hw |-> r.hw + 1, ran |-> TRUE],
            sim, rd_cycle_dly + 1, taps, TRUE)

\* line 904: pull back 1 cycle
PullBack(preamble_cycle) == preamble_cycle - 1

\* a failed scan that returns false in every build
ScanFailedReturnFalse(keep) == FALSE

\* lines 948-951: false, or true when built with KEEP_GOING_ON_DRAM_ERROR
ScanFailedReturn(keep) == keep

\* read_training_data_scan, lines 897-978, from delay lines that hold
\* (rd0, idly0): the value returned, the eye and the delay lines it leaves
read_training_data_scan(sim, taps, preamble_cycle, keep, idly0) ==
    LET first == PullBack(preamble_cycle)
        r == ReadScanCycles([eye |-> DEFAULT_EYE, hw |-> DelayLine(first),
                             ran |-> FALSE], sim, first, taps, FALSE)
        eye_width == r.eye.end - r.eye.start
        center == r.eye.start + CDiv(eye_width, 2)
    IN IF r.eye.state # AFTER
       THEN [ok |-> ScanFailedReturn(keep), eye |-> r.eye, rd_hw |-> r.hw,
             idly_hw |-> IF r.ran THEN taps ELSE idly0]
       ELSE [ok |-> TRUE, eye |-> [r.eye EXCEPT !.center = center],
             rd_hw |-> DelayLine(CDiv(center, taps)),
             idly_hw |-> DelayLine(CMod(center, taps))]

\* windows over the positions cycle * taps + tap of the read path
ReadWindows ==
    Intervals({0, 1, ReadTaps - 1, ReadTaps + 1, 2 * ReadTaps,
               3 * ReadTaps - 1, 4 * ReadTaps})

\* the serial readout passes on the LFSR window or one tap beyond it
Widen(w, by) == IF w = <<0, 0>> THEN w ELSE <<MAX(0, w[1] - by), w[2] + by>>

InitRead ==
    /\ TrainingIdle
    /\ flow = Idle
    /\ wr = Idle
    /\ eye_helper = Idle
    /\ \E pre \in ReadWindows, lfsr \in ReadWindows, by \in {0, 1},
          flaky \in BOOLEAN, keep \in BOOLEAN :
          rd = [pc |-> "preamble", keep |-> keep,
                sim |-> [pre |-> pre, lfsr |-> lfsr, serial |-> Widen(lfsr, by),
                         flaky |-> IF flaky THEN {lfsr[2] - 1} ELSE {}],
                preamble_cycle |-> -1, eye |-> DEFAULT_EYE, good |-> TRUE,
                rd_hw |-> 0, idly_hw |-> 0]

\* rank_read_training, lines 1020-1027, for the module
ReadPreamble ==
    /\ rd.pc = "preamble"
    /\ \E found \in {find_read_preamble_cycle(rd.sim, ReadTaps)} :
          rd' = [rd EXCEPT !.preamble_cycle = found.start,
                           !.good = (found.start # -1),
                           !.pc = IF found.start = -1 THEN "done" ELSE "scan",
                           !.rd_hw = found.rd_hw,
                           !.idly_hw = ReadTaps]
    /\ UNCHANGED <<training_vars, flow, wr, eye_helper>>

\* rank_read_training, lines 1030-1033
ReadDataScan ==
    /\ rd.pc = "scan"
    /\ \E r \in {read_training_data_scan(rd.sim, ReadTaps, rd.preamble_cycle,
                                         rd.keep, rd.idly_hw)} :
          rd' = [rd EXCEPT !.eye = r.eye, !.good = r.ok, !.rd_hw = r.rd_hw,
                           !.idly_hw = r.idly_hw, !.pc = "done"]
    /\ UNCHANGED <<training_vars, flow, wr, eye_helper>>

NextRead == ReadPreamble \/ ReadDataScan

SpecRead == InitRead /\ [][NextRead]_vars

----------------------------------------------------------------------------
(* Write training of one module (ddr5_training.c) *)

WriteTaps == 4

\* MAX_WRITE_CYCLE_DELAY comes from the generated PHY header
MaxWriteCycleDelay == 5

\* cycles the edge search of wltm_align_to_eye_edge may advance
MaxEdgeSteps == 1

\* wltm_align_to_eye_edge, lines 1220-1247: one cycle back, then `steps`
\* more cycles until wleveling_scan reports the edge at output delay `edge`
wltm_align_to_eye_edge(transition_cycle, steps, edge) ==
    [cycle |-> transition_cycle - 1 + steps, delay |-> edge]

\* line 1237: the search advances only while the cycle is below the maximum
EdgeStepsAllowed(transition_cycle, steps) ==
    steps = 0 \/ transition_cycle - 1 + (steps - 1) < MaxWriteCycleDelay

\* lines 1358-1362 and 1395-1399: add a quarter cycle, carry into the cycle
QuarterCycle(cycle, delay, taps) ==
    IF delay + CDiv(taps, 4) >= taps
    THEN [cycle |-> cycle + 1, delay |-> delay + CDiv(taps, 4) - taps]
    ELSE [cycle |-> cycle, delay |-> delay + CDiv(taps, 4)]

\* write_leveling, lines 1320-1416: ext is what wltm_align_external_cycle
\* returned, (s1, e1) and (s2, e2) what the two edge searches met
write_leveling(ext, s1, e1, s2, e2, taps) ==
    IF ext = -1 THEN -1
    ELSE LET a1 == wltm_align_to_eye_edge(ext, s1, e1)
             start == QuarterCycle(a1.cycle - 1, a1.delay, taps)
             a2 == wltm_align_to_eye_edge(start.cycle, s2, e2)
         IN QuarterCycle(a2.cycle + 1, a2.delay, taps).cycle

\* write_serial_check and write_lfsr_check at DQ cycle delay hw and output
\* delay `delay`, lines 1646-1656, as p_works
write_check(sim, hw, delay, taps) ==
    IF ~InWindow(sim.serial, hw * taps + delay) THEN 0
    ELSE IF ~InWindow(sim.lfsr, hw * taps + delay) THEN 1
    ELSE 3

\* lines 1663-1669: works is p_works = 3
WriteEyeStep(eye, p_works, pos) ==
    IF p_works = 3 /\ eye.state = BEFORE
    THEN [eye EXCEPT !.start = pos, !.state = INSIDE]
    ELSE IF p_works # 3 /\ eye.state = INSIDE
    THEN [eye EXCEPT !.end = pos, !.state = AFTER]
    ELSE eye

\* lines 1671-1675
SerialEyeStep(eye, p_works) ==
    IF p_works % 2 = 1 /\ eye.state = BEFORE
    THEN [eye EXCEPT !.state = INSIDE]
    ELSE IF p_works % 2 = 0 /\ eye.state = INSIDE
    THEN [eye EXCEPT !.state = AFTER]
    ELSE eye

\* lines 1642-1677: the output delays of one cycle
RECURSIVE WriteScanTaps(_, _, _, _, _)
WriteScanTaps(r, sim, cycle, delay, taps) ==
    IF delay >= taps THEN r
    ELSE LET p_works == write_check(sim, r.hw, delay, taps)
         IN WriteScanTaps(
               [r EXCEPT !.eye = WriteEyeStep(@, p_works, cycle * taps + delay),
                         !.serial_only_eye = SerialEyeStep(@, p_works)],
               sim, cycle, delay + 1, taps)

\* lines 1634-1681: wr_dq_inc at the end of every cycle
RECURSIVE WriteScanCycles(_, _, _, _, _)
WriteScanCycles(r, sim, cycle, write_strobe_cycle, taps) ==
    IF r.eye.state = AFTER \/ r.serial_only_eye.state = AFTER
       \/ cycle >= 65 \/ cycle >= write_strobe_cycle + 5
    THEN r
    ELSE LET r1 == WriteScanTaps(r, sim, cycle, 0, taps)
         IN WriteScanCycles([r1 EXCEPT !.hw = @ + 1], sim, cycle + 1,
                            write_strobe_cycle, taps)

\* write_data_scan, lines 1623-1683
write_data_scan(sim, taps, write_strobe_cycle) ==
    WriteScanCycles([eye |-> DEFAULT_EYE, serial_only_eye |-> DEFAULT_EYE,
                     hw |-> DelayLine(write_strobe_cycle - 3)],
                    sim, write_strobe_cycle - 3, write_strobe_cycle, taps).eye

\* the write path at DQ Vref `vref`: it answers as sim does when vref is one
\* of sim.vrefs and not at all otherwise
SimAt(sim, vref) ==
    IF vref \in sim.vrefs THEN sim
    ELSE [sim EXCEPT !.lfsr = <<0, 0>>, !.serial = <<0, 0>>]

\* line 1698: the Vref values moduel_dq_vref_scan tries, 0x32..0x45
VrefRange == 50..69

\* lines 1701-1710: eye.center = eye.end - eye.start of the scan at vref
VrefWidth(sim, taps, write_strobe_cycle, vref) ==
    LET eye == write_data_scan(SimAt(sim, vref), taps, write_strobe_cycle)
    IN eye.end - eye.start

\* lines 1717-1727: best_vref is the middle of eye_width_range of the largest
\* _width below SDRAM_PHY_DELAYS that some Vref exceeded; width is the width
\* met at every Vref
BestVref(width, taps) ==
    LET Over(w) == {v \in VrefRange : width[v] > w}
        set == {w \in 0..(taps - 1) : Over(w) # {}}
        top == CHOOSE w \in set : \A x \in set : x <= w
        lo == CHOOSE v \in Over(top) : \A x \in Over(top) : v <= x
        hi == CHOOSE v \in Over(top) : \A x \in Over(top) : x <= v
    IN IF set = {} THEN -1 ELSE CDiv(lo + (hi + 1), 2)

\* lines 1698-1710: the widths met at the Vref values vref..0x45, in order
RECURSIVE VrefWidths(_, _, _, _)
VrefWidths(sim, taps, write_strobe_cycle, vref) ==
    IF vref > 69 THEN <<>>
    ELSE <<VrefWidth(sim, taps, write_strobe_cycle, vref)>>
         \o VrefWidths(sim, taps, write_strobe_cycle, vref + 1)

\* moduel_dq_vref_scan, lines 1685-1737: the values it may return.  A width
\* beyond SDRAM_PHY_DELAYS writes past eye_width_range, and then any value
\* may come back
moduel_dq_vref_scan(sim, taps, write_strobe_cycle) ==
    LET Result(widths) ==
            LET width == [v \in VrefRange |-> widths[v - 49]]
                best == BestVref(width, taps)
            IN IF \E v \in VrefRange : width[v] > taps
               THEN {-1, best} ELSE {best}
    IN With(VrefWidths(sim, taps, write_strobe_cycle, 50), Result)

\* lines 1729-1732: MR10 holds best_vref, or the last Vref tried when no
\* best_vref was found
FinalVref(best_vref) == IF best_vref > -1 THEN best_vref ELSE 69

\* lines 1814-1815
Middle(eye) == CDiv(eye.start + eye.end, 2)

\* write_dm_lfsr_check for one byte position at DM output delay `delay`
write_dm_lfsr_check(sim, delay, byte) ==
    IF InWindow(sim.dm, delay) /\ byte \notin sim.dm_bad THEN 1 ELSE 0

\* lines 1749-1752: works = 1, then the loop over the 16 byte positions,
\* which calls write_dm_lfsr_check and does not assign its value
RECURSIVE DmBytes(_, _, _, _)
DmBytes(works, sim, delay, byte) ==
    IF byte >= 16 \/ works = 0 THEN works
    ELSE DmBytes(works, sim, delay, byte + 1)

\* lines 1757-1767
DmEyeStep(eye, works, delay, taps) ==
    IF works # 0 /\ eye.state = BEFORE
    THEN LET e1 == [eye EXCEPT !.start = delay, !.state = INSIDE]
         IN IF delay = taps - 1
            THEN [e1 EXCEPT !.end = delay + 1, !.state = AFTER] ELSE e1
    ELSE IF works = 0 /\ eye.state = INSIDE
    THEN [eye EXCEPT !.end = delay, !.state = AFTER]
    ELSE IF delay = taps - 1 /\ eye.state = INSIDE
    THEN [eye EXCEPT !.end = delay + 1, !.state = AFTER]
    ELSE eye

\* lines 1745-1769
RECURSIVE DmScanTaps(_, _, _, _)
DmScanTaps(eye, sim, delay, taps) ==
    IF delay >= taps \/ eye.state = AFTER THEN eye
    ELSE DmScanTaps(DmEyeStep(eye, DmBytes(1, sim, delay, 0), delay, taps),
                    sim, delay + 1, taps)

\* moduel_dm_scan, lines 1739-1786: the value returned, the eye and the DM
\* output delay programmed
moduel_dm_scan(sim, taps) ==
    LET eye_dm == DmScanTaps(DEFAULT_EYE, sim, 0, taps)
    IN [good |-> eye_dm.state = AFTER,
        eye_dm |-> [eye_dm EXCEPT !.center = eye_dm.end - eye_dm.start],
        odly_dm_hw |-> DelayLine(Middle(eye_dm))]

\* windows over the positions cycle * taps + delay of the write path
WriteWindows ==
    Intervals({0, 1, WriteTaps + 1, 2 * WriteTaps, 3 * WriteTaps - 1,
               5 * WriteTaps, 7 * WriteTaps + 2})

\* the Vref values at which the write path answers: all, the two ends of
\* the range only, none
VrefSets == {VrefRange, {50, 69}, {}}

\* the DM line: no DM in use, DM probes that pass at no delay, DM probes
\* that pass on a window for every byte but byte 15, DM probes that pass on
\* a window for every byte
DmCases ==
    {[enabled |-> FALSE, dm |-> <<0, 0>>, bad |-> {}],
     [enabled |-> TRUE, dm |-> <<0, 0>>, bad |-> {}],
     [enabled |-> TRUE, dm |-> <<1, WriteTaps - 1>>, bad |-> {15}],
     [enabled |-> TRUE, dm |-> <<1, WriteTaps - 1>>, bad |-> {}]}

InitWrite ==
    /\ TrainingIdle
    /\ flow = Idle
    /\ rd = Idle
    /\ eye_helper = Idle
    /\ \E lfsr \in WriteWindows, by \in {0, 1}, keep \in BOOLEAN,
          vrefs \in VrefSets, d \in DmCases :
          wr = [pc |-> "leveling", keep |-> keep,
                sim |-> [lfsr |-> lfsr, serial |-> Widen(lfsr, by),
                         vrefs |-> vrefs, dm |-> d.dm, dm_bad |-> d.bad],
                dm_enabled |-> d.enabled,
                write_strobe_cycle |-> 0, best_vref |-> -1,
                eye |-> DEFAULT_EYE, eye_dm |-> DEFAULT_EYE, good |-> TRUE,
                final_ran |-> FALSE, dm_ran |-> FALSE,
                wr_dq_hw |-> 0, odly_dq_hw |-> 0, odly_dm_hw |-> 0]

\* sdram_ddr5_write_training, lines 1854-1865, for the module
WriteLeveling ==
    /\ wr.pc = "leveling"
    /\ \E ext \in -1..(MaxWriteCycleDelay - 1),
          s1 \in 0..MaxEdgeSteps, s2 \in 0..MaxEdgeSteps,
          e1 \in {0, WriteTaps - 1}, e2 \in {0, WriteTaps - 1} :
          /\ EdgeStepsAllowed(ext, s1)
          /\ \E cycle \in {write_leveling(ext, s1, e1, s2, e2, WriteTaps)} :
                wr' = [wr EXCEPT !.write_strobe_cycle = cycle,
                                 !.good = (cycle # -1),
                                 !.pc = IF cycle = -1 /\ ~wr.keep
                                        THEN "done" ELSE "vref"]
    /\ UNCHANGED <<training_vars, flow, rd, eye_helper>>

\* module_vref_scan, lines 1799-1808
WriteVrefScan ==
    /\ wr.pc = "vref"
    /\ \E best \in moduel_dq_vref_scan(wr.sim, WriteTaps, wr.write_strobe_cycle) :
          wr' = [wr EXCEPT !.best_vref = best,
                           !.wr_dq_hw = 0, !.odly_dq_hw = 0,
                           !.good = IF best = -1 /\ ~wr.keep THEN FALSE ELSE @,
                           !.pc = IF best = -1 /\ ~wr.keep THEN "done" ELSE "final"]
    /\ UNCHANGED <<training_vars, flow, rd, eye_helper>>

\* module_vref_scan, lines 1811-1839: the final scan at the Vref left in
\* MR10; without DM the function returns best_vref
WriteFinalScan ==
    /\ wr.pc = "final"
    /\ \E eye \in {write_data_scan(SimAt(wr.sim, FinalVref(wr.best_vref)),
                                   WriteTaps, wr.write_strobe_cycle)} :
          wr' = [wr EXCEPT
                    !.eye = [eye EXCEPT !.center = eye.end - eye.start],
                    !.final_ran = TRUE,
                    !.wr_dq_hw = IF eye.state = AFTER
                                 THEN DelayLine(CDiv(Middle(eye), WriteTaps)) ELSE 0,
                    !.odly_dq_hw = IF eye.state = AFTER
                                   THEN DelayLine(CMod(Middle(eye), WriteTaps)) ELSE 0,
                    !.good = IF wr.dm_enabled THEN @ ELSE @ /\ (wr.best_vref # -1),
                    !.pc = IF wr.dm_enabled THEN "dm" ELSE "done"]
    /\ UNCHANGED <<training_vars, flow, rd, eye_helper>>

\* module_vref_scan, lines 1834-1839: DM training, when MR5 has DM enabled
\* and the die is wider than 4 bits; line 1871 takes the value returned
WriteDmScan ==
    /\ wr.pc = "dm"
    /\ \E r \in {moduel_dm_scan(wr.sim, WriteTaps)} :
          wr' = [wr EXCEPT
                    !.eye_dm = r.eye_dm,
                    !.dm_ran = TRUE,
                    !.odly_dm_hw = r.odly_dm_hw,
                    !.good = @ /\ r.good /\ (wr.best_vref # -1),
                    !.pc = "done"]
    /\ UNCHANGED <<training_vars, flow, rd, eye_helper>>

NextWrite == WriteLeveling \/ WriteVrefScan \/ WriteFinalScan \/ WriteDmScan

SpecWrite == InitWrite /\ [][NextWrite]_vars

----------------------------------------------------------------------------
(* Write leveling of one module, search by search (ddr5_training.c) *)

\* line 1294: the WICA search tries the operands [0, 7)
WicaOperands == 7

\* wltm_align_to_eye_edge, lines 1226-1246, when wleveling_scan never reports
\* the edge: the loop of line 1237 ends at MAX_WRITE_CYCLE_DELAY and
\* eye.start is still that of DEFAULT_EYE
EdgeNotFound(transition_cycle) ==
    [cycle |-> MAX(transition_cycle - 1, MaxWriteCycleDelay),
     delay |-> DEFAULT_EYE.start]

\* what one edge search may meet, from transition_cycle: the edge after
\* `steps` more cycles at output delay `edge`, or no edge
EdgeSearches(transition_cycle) ==
    {[found |-> TRUE, at |-> wltm_align_to_eye_edge(transition_cycle, steps, edge)] :
        steps \in {s \in 0..MaxEdgeSteps : EdgeStepsAllowed(transition_cycle, s)},
        edge \in {0, WriteTaps - 1}}
    \cup {[found |-> FALSE, at |-> EdgeNotFound(transition_cycle)]}

\* line 1278: the checks of one WICA operand
WicaRepetitions == 16

\* an operand that is taken to work when its first check passes
WicaWorksOnce(passed) == passed >= 1

\* lines 1274-1283: works after the loop over the checks, `passed` of which
\* pass before the first that fails
WicaWorks(passed) == passed = WicaRepetitions

\* lines 1270-1294: the do-while loop from operand wica on; passed[w] is the
\* number of checks wr_dqs_check_if_works passes at operand w, written the
\* operands sent to MR3 so far
RECURSIVE WicaLoop(_, _, _)
WicaLoop(passed, wica, written) ==
    LET sent == Append(written, wica)
    IN IF WicaWorks(passed[wica]) THEN [found |-> TRUE, written |-> sent]
       ELSE IF wica + 1 < WicaOperands THEN WicaLoop(passed, wica + 1, sent)
       ELSE [found |-> FALSE, written |-> sent]

\* wltm_align_internal_cycle, lines 1258-1297: whether an operand worked and
\* the operands written to MR3, in order
wltm_align_internal_cycle(passed) == WicaLoop(passed, 0, << >>)

\* what wr_dqs_check_if_works may answer over the operands: at each operand
\* every check passes or the last one fails, or no check passes anywhere
WicaAnswers ==
    [0..(WicaOperands - 1) -> {WicaRepetitions - 1, WicaRepetitions}]
    \cup {[w \in 0..(WicaOperands - 1) |-> 0]}

InitLeveling ==
    /\ TrainingIdle
    /\ flow = Idle
    /\ rd = Idle
    /\ eye_helper = Idle
    /\ wr = [pc |-> "wl_external", transition_cycle |-> -1,
             transition_delay |-> -1, mr3_wica |-> 0, exhausted |-> {},
             wica_passed |-> << >>, wica_written |-> << >>, returned |-> -1]

\* write_leveling, lines 1331-1337: wltm_align_external_cycle returns the
\* first cycle that works, -1 when the sweep to MAX_WRITE_CYCLE_DELAY met none
LevelingExternalCycle ==
    /\ wr.pc = "wl_external"
    /\ \E ext \in -1..(MaxWriteCycleDelay - 1) :
          wr' = [wr EXCEPT !.transition_cycle = ext,
                           !.exhausted = IF ext = -1 THEN @ \cup {"external"} ELSE @,
                           !.returned = ext,
                           !.pc = IF ext = -1 THEN "wl_returned" ELSE "wl_edge"]
    /\ UNCHANGED <<training_vars, flow, rd, eye_helper>>

\* write_leveling, lines 1343-1377: the first edge search and the adjustment
\* by -0.75 tCK
LevelingFirstEdge ==
    /\ wr.pc = "wl_edge"
    /\ \E search \in EdgeSearches(wr.transition_cycle) :
          \E start \in {QuarterCycle(search.at.cycle - 1, search.at.delay, WriteTaps)} :
             wr' = [wr EXCEPT !.transition_cycle = start.cycle,
                              !.transition_delay = start.delay,
                              !.exhausted = IF search.found THEN @ ELSE @ \cup {"edge"},
                              !.pc = "wl_wica"]
    /\ UNCHANGED <<training_vars, flow, rd, eye_helper>>

\* write_leveling, line 1382; MR3 keeps the last operand tried
LevelingInternalCycle ==
    /\ wr.pc = "wl_wica"
    /\ \E passed \in WicaAnswers :
          \E r \in {wltm_align_internal_cycle(passed)} :
             wr' = [wr EXCEPT !.mr3_wica = r.written[Len(r.written)],
                              !.wica_passed = passed,
                              !.wica_written = r.written,
                              !.exhausted = IF r.found THEN @ ELSE @ \cup {"wica"},
                              !.pc = "wl_edge2"]
    /\ UNCHANGED <<training_vars, flow, rd, eye_helper>>

\* write_leveling, lines 1387-1415: the second edge search, the adjustment by
\* +1.25 tCK and the return of transition_cycle
LevelingSecondEdge ==
    /\ wr.pc = "wl_edge2"
    /\ \E search \in EdgeSearches(wr.transition_cycle) :
          \E final \in {QuarterCycle(search.at.cycle + 1, search.at.delay, WriteTaps)} :
             wr' = [wr EXCEPT !.transition_cycle = final.cycle,
                              !.transition_delay = final.delay,
                              !.exhausted = IF search.found THEN @ ELSE @ \cup {"edge"},
                              !.returned = final.cycle,
                              !.pc = "wl_returned"]
    /\ UNCHANGED <<training_vars, flow, rd, eye_helper>>

NextLeveling ==
    \/ LevelingExternalCycle
    \/ LevelingFirstEdge
    \/ LevelingInternalCycle
    \/ LevelingSecondEdge

SpecLeveling == InitLeveling /\ [][NextLeveling]_vars


----------------------------------------------------------------------------
(* eye_detection_helper.c driven on its own: samples are recorded one by   *)
(* one and the three queries are asked of what has been recorded           *)

\* the scan length `max` the queries are called with
HelperMax == 4

\* values a scan records: 0, a single hit, a module bitmask
HelperValues == {0, 1, 2}

NoAnswer == [op |-> "none"]

InitHelper ==
    /\ TrainingIdle
    /\ flow = Idle
    /\ rd = Idle
    /\ wr = Idle
    /\ eye_helper = [pc |-> "record", arr |-> clear_helper_arr, last |-> NoAnswer]

\* clear_helper_arr()
HelperClear ==
    /\ eye_helper.pc = "record"
    /\ eye_helper' = [eye_helper EXCEPT !.arr = clear_helper_arr, !.last = NoAnswer]
    /\ UNCHANGED <<training_vars, flow, rd, wr>>

\* set_helper_arr_value_and_advance(value), at most 2 * max times per clear
HelperSet ==
    /\ eye_helper.pc = "record"
    /\ Len(eye_helper.arr) < 2 * HelperMax
    /\ \E value \in HelperValues :
          eye_helper' = [eye_helper EXCEPT
                        !.arr = set_helper_arr_value_and_advance(@, value),
                        !.last = NoAnswer]
    /\ UNCHANGED <<training_vars, flow, rd, wr>>

\* find_eye_in_helper_arr(&left, &right, max) with left = right = UNSET_DELAY
HelperFindEye ==
    /\ eye_helper.pc = "record"
    /\ LET eye == find_eye_in_helper_arr(eye_helper.arr, UNSET_DELAY, UNSET_DELAY,
                                         HelperMax)
       IN eye_helper' = [eye_helper EXCEPT
                        !.last = [op |-> "find_eye", left |-> eye.left,
                                  right |-> eye.right]]
    /\ UNCHANGED <<training_vars, flow, rd, wr>>

\* one_in_helper_arr(max)
HelperOneIn ==
    /\ eye_helper.pc = "record"
    /\ eye_helper' = [eye_helper EXCEPT
                     !.last = [op |-> "one_in",
                               value |-> one_in_helper_arr(eye_helper.arr, HelperMax)]]
    /\ UNCHANGED <<training_vars, flow, rd, wr>>

\* one_stride_helper_arr(max)
HelperOneStride ==
    /\ eye_helper.pc = "record"
    /\ eye_helper' = [eye_helper EXCEPT
                     !.last = [op |-> "one_stride",
                               value |-> one_stride_helper_arr(eye_helper.arr, HelperMax)]]
    /\ UNCHANGED <<training_vars, flow, rd, wr>>

NextHelper ==
    \/ HelperClear
    \/ HelperSet
    \/ HelperFindEye
    \/ HelperOneIn
    \/ HelperOneStride

SpecHelper == InitHelper /\ [][NextHelper]_vars

----------------------------------------------------------------------------
(* sdram_ddr5_flow (ddr5_training.c) and the SPD parser (ddr5_spd_parse.c) *)

\* CHANNELS of the build, the channel count of the host contexts
Channels == 2

\* enum module_type
RDIMM == "RDIMM"

UDIMM == "UDIMM"

OtherModule == "OTHER"

\* the lower nibble of SPD byte 3 as enum module_type
ModuleTypeOf(nibble) ==
    IF nibble = 1 THEN RDIMM ELSE IF nibble = 2 THEN UDIMM ELSE OtherModule

\* the parser trusts the buffer whether or not the read was acknowledged
read_module_type_unchecked(ack, byte) == ModuleTypeOf(byte % 16)

\* the RCD manufacturer IDs sdram_ddr5_flow and rcd_init test for
RAMBUS_ID == 40326

MONTAGE_ID == 12934

\* cs.check and cs.enter_training_mode of the RCD->DRAM context
DefaultCsOps == "default"

RambusQuirkCsOps == "RAMBUS_QUIRK"

\* the quirk is taken for the Montage ID
RcdCsOpsMontage(manufacturer) ==
    IF manufacturer = MONTAGE_ID THEN RambusQuirkCsOps ELSE DefaultCsOps

\* sdram_ddr5_flow, lines 2016-2019
RcdCsOps(manufacturer) ==
    IF manufacturer = RAMBUS_ID THEN RambusQuirkCsOps ELSE DefaultCsOps

\* read_module_type, lines 12-24
read_module_type(ack, byte) == IF ~ack THEN UDIMM ELSE ModuleTypeOf(byte % 16)

\* read_module_ranks, lines 48-70
read_module_ranks(ack, byte) == IF ~ack THEN 1 ELSE ((byte \div 8) % 8) + 1

\* read_module_channels, lines 72-89
read_module_channels(ack, byte) == IF ~ack THEN Channels ELSE ((byte \div 32) % 4) + 1

\* read_module_rcd_manufacturer, lines 92-110
read_module_rcd_manufacturer(ack0, ack1, val) ==
    IF ~ack0 THEN 0 ELSE IF ~ack1 THEN 0 ELSE val

\* sdram_ddr5_check_enumerate, lines 643-673
sdram_ddr5_check_enumerate(enumerated, ok, keep) ==
    IF ~enumerated THEN FALSE ELSE IF keep THEN TRUE ELSE ok

\* the value a fail-fast build returns, whatever the policy
TrainingResultFailFast(keep, good) == good

\* sdram_ddr5_read_training, lines 1111-1114, and sdram_ddr5_write_training,
\* lines 1882-1885
TrainingResult(keep, good) == IF keep THEN TRUE ELSE good

Event(stage, ctx, ch, kind) == [stage |-> stage, ctx |-> ctx, ch |-> ch, kind |-> kind]

Outcome(ok) == IF ok THEN "ok" ELSE "fail"

\* what a stage handed to its caller: failed is whether the stage failed,
\* returned its return value, flag ctx->CS_CA_successful after the call
StageReturn(stage, ctx, ch, failed, returned, flag) ==
    [stage |-> stage, ctx |-> ctx, ch |-> ch, failed |-> failed,
     returned |-> returned, flag |-> flag]

\* sdram_ddr5_flow, lines 1977-1988, and init_structs: the flow before its
\* first SPD read, for a policy and the answers the SPD will give
FlowStart(keep, spd) ==
    [pc |-> "classify", keep |-> keep, spd |-> spd,
     is_rdimm |-> FALSE, ctx |-> "host_dram", ch |-> 0,
     nch |-> Channels, rcd_ranks |-> 1, rcd_channels |-> Channels,
     manufacturer |-> 0, rcd_cs |-> DefaultCsOps, bus |-> 1,
     ok |-> [c \in {"host_dram", "host_rcd", "rcd_dram"} |-> 1],
     ev |-> << >>, rets |-> << >>]

InitFlow ==
    /\ TrainingIdle
    /\ rd = Idle
    /\ wr = Idle
    /\ eye_helper = Idle
    /\ \E keep \in BOOLEAN, type_ack \in BOOLEAN, type_byte \in {1, 2},
          ranks_ack \in BOOLEAN, ranks_byte \in {0, 8},
          channels_ack \in BOOLEAN, channels_byte \in {0, 32},
          rcd_ack \in BOOLEAN, rcd_val \in {RAMBUS_ID, MONTAGE_ID} :
          flow = FlowStart(keep,
                     [type_ack |-> type_ack, type_byte |-> type_byte,
                      ranks_ack |-> ranks_ack, ranks_byte |-> ranks_byte,
                      channels_ack |-> channels_ack,
                      channels_byte |-> channels_byte, rcd_ack |-> rcd_ack,
                      rcd_val |-> rcd_val])

\* lines 1986-2009 and rcd_init up to line 1926
FlowClassify ==
    /\ flow.pc = "classify"
    /\ LET rdimm == read_module_type(flow.spd.type_ack, flow.spd.type_byte) = RDIMM
       IN flow' = [flow EXCEPT
             !.is_rdimm = rdimm,
             !.ctx = IF rdimm THEN "host_rcd" ELSE "host_dram",
             !.rcd_ranks = read_module_ranks(flow.spd.ranks_ack, flow.spd.ranks_byte),
             !.rcd_channels = read_module_channels(flow.spd.channels_ack,
                                                   flow.spd.channels_byte),
             !.manufacturer = IF rdimm
                              THEN read_module_rcd_manufacturer(flow.spd.rcd_ack,
                                        flow.spd.rcd_ack, flow.spd.rcd_val)
                              ELSE 0,
             !.pc = "train"]
    /\ UNCHANGED <<training_vars, rd, wr, eye_helper>>

\* sdram_ddr5_cs_ca_channel_training with the outcomes of CS and CA training
\* as inputs, and what its caller does with the value: lines 601-607 for the
\* host contexts, lines 2042-2043 for the RDIMM loop
FlowChannelTraining ==
    /\ flow.pc = "train"
    /\ \E cs_ok \in {0, 1}, ca_ok \in {0, 1} :
          LET ran_ca == flow.keep \/ cs_ok = 1
              returned == IF ran_ca THEN ChannelResult(flow.keep, cs_ok, ca_ok)
                          ELSE FALSE
              evs == <<Event("cs", flow.ctx, flow.ch, "start"),
                       Event("cs", flow.ctx, flow.ch, Outcome(cs_ok = 1))>>
                     \o (IF ran_ca
                         THEN <<Event("ca", flow.ctx, flow.ch, "start"),
                                Event("ca", flow.ctx, flow.ch, Outcome(ca_ok = 1))>>
                         ELSE << >>)
              acc == BusAccumulate(flow.keep, flow.bus, flow.ok[flow.ctx], returned)
          IN /\ ran_ca \/ ca_ok = 1
             /\ IF flow.ctx = "rcd_dram"
                THEN flow' = [flow EXCEPT
                        !.ev = @ \o evs,
                        !.rets = Append(@, StageReturn("cs_ca", flow.ctx, flow.ch,
                                     cs_ok = 0 \/ ca_ok = 0, returned,
                                     flow.ok[flow.ctx])),
                        !.pc = "ck"]
                ELSE flow' = [flow EXCEPT
                        !.ev = @ \o evs,
                        !.rets = Append(@, StageReturn("cs_ca", flow.ctx, flow.ch,
                                     cs_ok = 0 \/ ca_ok = 0, returned, acc.ok)),
                        !.bus = acc.bus,
                        !.ok[flow.ctx] = acc.ok,
                        !.ch = IF (flow.keep \/ acc.ok = 1) /\ flow.ch + 1 < flow.nch
                               THEN flow.ch + 1 ELSE flow.ch,
                        !.pc = IF ~flow.keep /\ acc.ok = 0 THEN "after"
                               ELSE IF flow.ch + 1 < flow.nch THEN "train"
                               ELSE "ck"]
    /\ UNCHANGED <<training_vars, rd, wr, eye_helper>>

\* CK_CS_CA_finalize_timings: line 609 for all channels (ch = -1) or line
\* 2043 for the channel of the RDIMM loop
FlowFinalize ==
    /\ flow.pc = "ck"
    /\ flow' = [flow EXCEPT
          !.ev = Append(@, Event("ck", flow.ctx,
                                 IF flow.ctx = "rcd_dram" THEN flow.ch ELSE -1,
                                 "start")),
          !.ch = IF flow.ctx = "rcd_dram" /\ flow.ch + 1 < flow.nch
                 THEN flow.ch + 1 ELSE flow.ch,
          !.pc = IF flow.ctx = "rcd_dram" /\ flow.ch + 1 < flow.nch
                 THEN "train" ELSE "after"]
    /\ UNCHANGED <<training_vars, rd, wr, eye_helper>>

\* After the CS/CA training of a context: lines 1927-1928 and 2010-2015 for
\* Host->RCD, line 2057 for the DRAM side
FlowAfterTraining ==
    /\ flow.pc = "after"
    /\ IF flow.ctx = "host_rcd"
       THEN LET both == IF flow.ok["rcd_dram"] = 1 /\ flow.ok["host_rcd"] = 1
                        THEN 1 ELSE 0
            IN flow' = [flow EXCEPT
                  !.ok["rcd_dram"] = both,
                  !.rcd_cs = IF both = 0 THEN @ ELSE RcdCsOps(flow.manufacturer),
                  !.ctx = "rcd_dram",
                  !.ch = 0,
                  !.nch = flow.rcd_channels,
                  !.bus = 1,
                  !.pc = IF both = 0 THEN "done" ELSE "train"]
       ELSE flow' = [flow EXCEPT
                  !.pc = IF flow.ok[flow.ctx] = 0 THEN "done" ELSE "enumerate"]
    /\ UNCHANGED <<training_vars, rd, wr, eye_helper>>

\* lines 2106-2109: dram_enumerate of the ranks
FlowEnumerate ==
    /\ flow.pc = "enumerate"
    /\ \E enumerated \in BOOLEAN, ok \in BOOLEAN :
          flow' = [flow EXCEPT
             !.ev = @ \o <<Event("enumerate", flow.ctx, -1, "start"),
                           Event("enumerate", flow.ctx, -1,
                                 Outcome(enumerated /\ ok))>>,
             !.pc = IF sdram_ddr5_check_enumerate(enumerated, ok, flow.keep)
                    THEN "read" ELSE "done"]
    /\ UNCHANGED <<training_vars, rd, wr, eye_helper>>

\* lines 2125-2135
FlowRead ==
    /\ flow.pc = "read"
    /\ \E good \in BOOLEAN :
          flow' = [flow EXCEPT
             !.ctx = "host_dram",
             !.ev = @ \o <<Event("read", "host_dram", -1, "start"),
                           Event("read", "host_dram", -1, Outcome(good))>>,
             !.rets = Append(@, StageReturn("read", "host_dram", -1, ~good,
                                 TrainingResult(flow.keep, good),
                                 flow.ok["host_dram"])),
             !.pc = IF TrainingResult(flow.keep, good) THEN "write" ELSE "done"]
    /\ UNCHANGED <<training_vars, rd, wr, eye_helper>>

\* lines 2136-2138
FlowWrite ==
    /\ flow.pc = "write"
    /\ \E good \in BOOLEAN :
          flow' = [flow EXCEPT
             !.ev = @ \o <<Event("write", "host_dram", -1, "start"),
                           Event("write", "host_dram", -1, Outcome(good))>>,
             !.rets = Append(@, StageReturn("write", "host_dram", -1, ~good,
                                 TrainingResult(flow.keep, good),
                                 flow.ok["host_dram"])),
             !.pc = "done"]
    /\ UNCHANGED <<training_vars, rd, wr, eye_helper>>

NextFlow ==
    \/ FlowClassify
    \/ FlowChannelTraining
    \/ FlowFinalize
    \/ FlowAfterTraining
    \/ FlowEnumerate
    \/ FlowRead
    \/ FlowWrite

SpecFlow == InitFlow /\ [][NextFlow]_vars

----------------------------------------------------------------------------
(* The flow with the sweeps of its write stage taken one cycle at a time: *)
(* the DQS edge search of write leveling and the write data scan          *)

\* line 1237: the edge search goes on
EdgeSearchGoesOn(transition_cycle, state) ==
    transition_cycle < MaxWriteCycleDelay /\ state # INSIDE

\* line 1634: the data scan goes on
DataScanGoesOn(cycle, write_strobe_cycle, eye_state, serial_state) ==
    /\ eye_state # AFTER
    /\ serial_state # AFTER
    /\ cycle < 65
    /\ cycle < write_strobe_cycle + 5

\* a cycle counter that wraps below the limit of the sweep
NextCycleWrapped(cycle) == (cycle + 1) % MaxWriteCycleDelay

\* lines 1239 and 1634: the cycle counter of a sweep advances by one
NextCycle(cycle) == cycle + 1

\* lines 1642-1677 for the states of the two eyes, when the checks answer
\* p_works at every output delay of the cycle
RECURSIVE ScanCycleStates(_, _, _, _)
ScanCycleStates(st, p_works, delay, taps) ==
    IF delay >= taps THEN st
    ELSE ScanCycleStates(
            [eye |-> WriteEyeStep([DEFAULT_EYE EXCEPT !.state = st.eye],
                                  p_works, delay).state,
             serial |-> SerialEyeStep([DEFAULT_EYE EXCEPT !.state = st.serial],
                                      p_works).state],
            p_works, delay + 1, taps)

\* a UDIMM under either policy and an RDIMM under the fail-fast policy; the
\* SPD answers every read
InitTermination ==
    /\ TrainingIdle
    /\ rd = Idle
    /\ eye_helper = Idle
    /\ wr = [pc |-> "wait", transition_cycle |-> 0, edge_state |-> BEFORE,
             write_strobe_cycle |-> 0, cycle |-> 0,
             eye_state |-> BEFORE, serial_state |-> BEFORE]
    /\ \E keep \in BOOLEAN, type_byte \in {1, 2} :
          /\ keep => type_byte = 2
          /\ flow = FlowStart(keep,
                     [type_ack |-> TRUE, type_byte |-> type_byte,
                      ranks_ack |-> TRUE, ranks_byte |-> 0,
                      channels_ack |-> TRUE, channels_byte |-> 0,
                      rcd_ack |-> TRUE, rcd_val |-> RAMBUS_ID])

\* wltm_align_to_eye_edge, lines 1226-1235, entered from write training with
\* the cycle ext of the external sweep, here three cycles short of the
\* limit: one cycle back and the first wleveling_scan, which may or may not
\* meet the edge
WriteEdgeBegin ==
    /\ flow.pc = "write"
    /\ wr.pc = "wait"
    /\ \E ext \in {MaxWriteCycleDelay - 2}, found \in BOOLEAN :
          wr' = [wr EXCEPT !.transition_cycle = ext - 1,
                           !.edge_state = IF found THEN INSIDE ELSE BEFORE,
                           !.pc = "edge"]
    /\ UNCHANGED <<training_vars, flow, rd, eye_helper>>

\* lines 1237-1244: one more cycle and one more wleveling_scan
WriteEdgeStep ==
    /\ wr.pc = "edge"
    /\ EdgeSearchGoesOn(wr.transition_cycle, wr.edge_state)
    /\ \E found \in BOOLEAN :
          wr' = [wr EXCEPT !.transition_cycle = NextCycle(@),
                           !.edge_state = IF found THEN INSIDE ELSE BEFORE]
    /\ UNCHANGED <<training_vars, flow, rd, eye_helper>>

\* line 1246, where the eye of the search goes out of scope, and
\* write_data_scan, lines 1623-1634, entered with the strobe cycle one past
\* the cycle of the edge
WriteEdgeReturn ==
    /\ wr.pc = "edge"
    /\ ~EdgeSearchGoesOn(wr.transition_cycle, wr.edge_state)
    /\ wr' = [wr EXCEPT !.write_strobe_cycle = wr.transition_cycle + 1,
                        !.edge_state = BEFORE,
                        !.cycle = wr.transition_cycle + 1 - 3,
                        !.pc = "scan"]
    /\ UNCHANGED <<training_vars, flow, rd, eye_helper>>

\* lines 1634-1681: one cycle of the data scan
WriteScanStep ==
    /\ wr.pc = "scan"
    /\ DataScanGoesOn(wr.cycle, wr.write_strobe_cycle, wr.eye_state, wr.serial_state)
    /\ \E p_works \in {0, 1, 3} :
          \E st \in {ScanCycleStates([eye |-> wr.eye_state, serial |-> wr.serial_state],
                                     p_works, 0, WriteTaps)} :
             wr' = [wr EXCEPT !.eye_state = st.eye,
                              !.serial_state = st.serial,
                              !.cycle = NextCycle(@)]
    /\ UNCHANGED <<training_vars, flow, rd, eye_helper>>

\* line 1682: eye is returned, cycle and serial_only_eye go out of scope
WriteScanReturn ==
    /\ wr.pc = "scan"
    /\ ~DataScanGoesOn(wr.cycle, wr.write_strobe_cycle, wr.eye_state, wr.serial_state)
    /\ wr' = [wr EXCEPT !.cycle = 0, !.serial_state = BEFORE, !.pc = "swept"]
    /\ UNCHANGED <<training_vars, flow, rd, eye_helper>>

\* lines 2136-2138: write training returns to the flow
FlowWriteReturn ==
    /\ wr.pc = "swept"
    /\ FlowWrite

NextTermination ==
    \/ FlowClassify
    \/ FlowChannelTraining
    \/ FlowFinalize
    \/ FlowAfterTraining
    \/ FlowEnumerate
    \/ FlowRead
    \/ WriteEdgeBegin
    \/ WriteEdgeStep
    \/ WriteEdgeReturn
    \/ WriteScanStep
    \/ WriteScanReturn
    \/ FlowWriteReturn

\* the processor runs the flow to its end: a step that can be taken is taken
SpecTermination ==
    InitTermination /\ [][NextTermination]_vars /\ WF_vars(NextTermination)

----------------------------------------------------------------------------
(* sdram_ddr5_read_training (ddr5_training.c) and its caller *)

\* ctx->modules of the read-trained context
ReadModules == 2

\* ctx->ranks of the read-trained context
ReadRanks == 2

\* sdram_ddr5_read_training, line 1104: the read_back_check argument
ReadBackCheck(type, rdimm) == type = HOST_DRAM /\ ~rdimm

\* rank_read_check, lines 1057-1066 and 1074: works[module] is the value of
\* simple_read_check; a failing module is recorded and the loop goes on
RECURSIVE rank_read_check(_, _, _, _)
rank_read_check(read_back_check, works, module, good) ==
    IF module > Len(works) THEN [good |-> good, modules |-> module - 1]
    ELSE rank_read_check(read_back_check, works, module + 1,
                         good /\ (~read_back_check \/ works[module]))

\* a loop that never leaves early
ReadNeverStops(keep, good) == FALSE

\* lines 1097-1100 and 1105-1108: the early return of a fail-fast build
ReadStops(keep, good) == ~keep /\ ~good

InitReadLoop ==
    /\ TrainingIdle
    /\ flow = Idle
    /\ wr = Idle
    /\ eye_helper = Idle
    /\ \E keep \in BOOLEAN, type \in {HOST_DRAM, RCD_DRAM}, rdimm \in BOOLEAN,
          nch \in 1..Channels, nranks \in 1..ReadRanks :
          rd = [pc |-> "rank_training", keep |-> keep,
                read_back_check |-> ReadBackCheck(type, rdimm),
                channels |-> nch, ranks |-> nranks, channel |-> 0, rank |-> 0,
                good |-> TRUE, log |-> << >>, returned |-> TRUE,
                write_started |-> FALSE]

\* lines 1094-1100: rank_read_training of the rank and the fail-fast return
ReadRankTraining ==
    /\ rd.pc = "rank_training"
    /\ \E trained \in BOOLEAN :
          LET good == rd.good /\ trained
          IN rd' = [rd EXCEPT
                !.good = good,
                !.log = Append(@, [channel |-> rd.channel, rank |-> rd.rank,
                                   training |-> Outcome(trained),
                                   check |-> "none", modules |-> 0]),
                !.pc = IF ReadStops(rd.keep, good) THEN "return"
                       ELSE "rank_check"]
    /\ UNCHANGED <<training_vars, flow, wr, eye_helper>>

\* lines 1102-1109: rank_read_check of the rank, the fail-fast return and
\* the step of the loops of lines 1090 and 1093
ReadRankCheck ==
    /\ rd.pc = "rank_check"
    /\ \E works \in [1..ReadModules -> BOOLEAN] :
          LET chk == rank_read_check(rd.read_back_check, works, 1, TRUE)
              good == rd.good /\ chk.good
              last_rank == rd.rank + 1 >= rd.ranks
              last == last_rank /\ rd.channel + 1 >= rd.channels
          IN rd' = [rd EXCEPT
                !.good = good,
                !.log[Len(rd.log)].check = Outcome(chk.good),
                !.log[Len(rd.log)].modules = chk.modules,
                !.rank = IF ReadStops(rd.keep, good) \/ last THEN @
                         ELSE IF last_rank THEN 0 ELSE @ + 1,
                !.channel = IF ReadStops(rd.keep, good) \/ last \/ ~last_rank
                            THEN @ ELSE @ + 1,
                !.pc = IF ReadStops(rd.keep, good) \/ last THEN "return"
                       ELSE "rank_training"]
    /\ UNCHANGED <<training_vars, flow, wr, eye_helper>>

\* lines 1111-1114 and the caller, lines 2133-2135
ReadReturn ==
    /\ rd.pc = "return"
    /\ rd' = [rd EXCEPT
          !.returned = TrainingResult(rd.keep, rd.good),
          !.pc = IF TrainingResult(rd.keep, rd.good) THEN "write" ELSE "done"]
    /\ UNCHANGED <<training_vars, flow, wr, eye_helper>>

\* line 2136: sdram_ddr5_write_training is entered
ReadThenWrite ==
    /\ rd.pc = "write"
    /\ rd' = [rd EXCEPT !.write_started = TRUE, !.pc = "done"]
    /\ UNCHANGED <<training_vars, flow, wr, eye_helper>>

NextReadLoop ==
    \/ ReadRankTraining
    \/ ReadRankCheck
    \/ ReadReturn
    \/ ReadThenWrite

SpecReadLoop == InitReadLoop /\ [][NextReadLoop]_vars

----------------------------------------------------------------------------
(* Training modes of the device, call by call (ddr5_training.c) *)

\* the functions that bracket a training mode
ModeStages == {"CS_scan", "CA_scan", "rank_read_training", "write_training"}

\* the first call site of each function
ModeEntry(stage) ==
    IF stage = "CS_scan" THEN "cs_enter"
    ELSE IF stage = "CA_scan" THEN "ca_enter"
    ELSE IF stage = "rank_read_training" THEN "rd_enter"
    ELSE "wl_enter"

\* enter_training_mode, enter_rptm, enter_wltm: the device is in `mode`
enter_training_mode(r, mode) ==
    [r EXCEPT !.modes = @ \cup {mode}, !.events = Append(@, <<"enter", mode>>)]

\* exit_training_mode, exit_rptm, exit_wltm: the device has left `mode`
exit_training_mode(r, mode) ==
    [r EXCEPT !.modes = @ \ {mode}, !.events = Append(@, <<"exit", mode>>)]

\* lines 120-158: the calls of CS_scan_single between entry and exit, given
\* whether the polarity retry ran and what one_in_helper_arr returned
CsSingles(retry, one_in) ==
    1 + (IF retry THEN 1 ELSE 0) + (IF one_in = 1 THEN 1 ELSE 2)

\* a leveling loop that returns from the function on the first failure
ModuleLoopReturns(keep, good, module, nmodules) ==
    IF ~keep /\ ~good THEN "returned"
    ELSE IF module + 1 >= nmodules THEN "wl_exit" ELSE "wl_module"

\* lines 1853-1860: the module loop of write leveling goes to exit_wltm at
\* its end, and by break on the first failure of a fail-fast build
ModuleLoopNext(keep, good, module, nmodules) ==
    IF (~keep /\ ~good) \/ module + 1 >= nmodules THEN "wl_exit" ELSE "wl_module"

\* lines 1862-1865 and 1875-1878: a fail-fast build returns on failure
FailFastReturn(keep, good) == ~keep /\ ~good

InitModes ==
    /\ TrainingIdle
    /\ flow = Idle
    /\ wr = Idle
    /\ eye_helper = Idle
    /\ \E stage \in ModeStages, type \in TrainingTypes, keep \in BOOLEAN :
          rd = [pc |-> ModeEntry(stage), stage |-> stage, type |-> type,
                keep |-> keep, modes |-> {}, events |-> << >>, singles |-> 0,
                rank |-> 0, module |-> 0, good |-> TRUE]

\* CS_scan, lines 114-120: entry and the initial scan
ModeCsEnter ==
    /\ rd.pc = "cs_enter"
    /\ rd' = [enter_training_mode(rd, "cs") EXCEPT !.pc = "cs_sweep"]
    /\ UNCHANGED <<training_vars, flow, wr, eye_helper>>

\* CS_scan, lines 120-158: the polarity retry of Host->RCD and the switch on
\* one_in_helper_arr
ModeCsSweep ==
    /\ rd.pc = "cs_sweep"
    /\ \E retry \in BOOLEAN, one_in \in {-1, 0, 1} :
          /\ retry => rd.type = HOST_RCD
          /\ rd' = [rd EXCEPT !.singles = CsSingles(retry, one_in),
                              !.pc = "cs_exit"]
    /\ UNCHANGED <<training_vars, flow, wr, eye_helper>>

\* CS_scan, lines 160-161
ModeCsExit ==
    /\ rd.pc = "cs_exit"
    /\ rd' = [exit_training_mode(rd, "cs") EXCEPT !.pc = "returned"]
    /\ UNCHANGED <<training_vars, flow, wr, eye_helper>>

\* CA_scan, lines 286-294: entry and the two scans of the line
ModeCaEnter ==
    /\ rd.pc = "ca_enter"
    /\ rd' = [enter_training_mode(rd, "ca") EXCEPT !.singles = 2, !.pc = "ca_exit"]
    /\ UNCHANGED <<training_vars, flow, wr, eye_helper>>

\* CA_scan, line 297
ModeCaExit ==
    /\ rd.pc = "ca_exit"
    /\ rd' = [exit_training_mode(rd, "ca") EXCEPT !.pc = "returned"]
    /\ UNCHANGED <<training_vars, flow, wr, eye_helper>>

\* rank_read_training, line 1014
ModeReadEnter ==
    /\ rd.pc = "rd_enter"
    /\ rd' = [enter_training_mode(rd, "rptm") EXCEPT !.pc = "rd_module"]
    /\ UNCHANGED <<training_vars, flow, wr, eye_helper>>

\* rank_read_training, lines 1016-1034: one module; a preamble that is not
\* found and a data scan that fails clear good and the loop goes on
ModeReadModule ==
    /\ rd.pc = "rd_module"
    /\ rd.module < ReadModules
    /\ \E preamble_found \in BOOLEAN, scanned \in BOOLEAN :
          rd' = [rd EXCEPT !.good = @ /\ preamble_found /\ scanned,
                           !.module = @ + 1]
    /\ UNCHANGED <<training_vars, flow, wr, eye_helper>>

\* rank_read_training, lines 1037-1038
ModeReadExit ==
    /\ rd.pc = "rd_module"
    /\ rd.module >= ReadModules
    /\ rd' = [exit_training_mode(rd, "rptm") EXCEPT !.pc = "returned"]
    /\ UNCHANGED <<training_vars, flow, wr, eye_helper>>

\* sdram_ddr5_write_training, lines 1850-1852, for one channel
ModeLevelingEnter ==
    /\ rd.pc = "wl_enter"
    /\ rd' = [enter_training_mode(rd, "wltm") EXCEPT !.module = 0,
                                                      !.pc = "wl_module"]
    /\ UNCHANGED <<training_vars, flow, wr, eye_helper>>

\* lines 1853-1860: write_leveling of one module, which enters the mode
\* again (line 1321) and returns -1 or a cycle
ModeLevelingModule ==
    /\ rd.pc = "wl_module"
    /\ \E found \in BOOLEAN :
          \E good \in {rd.good /\ found} :
             rd' = [enter_training_mode(rd, "wltm") EXCEPT
                       !.good = good,
                       !.module = @ + 1,
                       !.pc = ModuleLoopNext(rd.keep, good, rd.module, ReadModules)]
    /\ UNCHANGED <<training_vars, flow, wr, eye_helper>>

\* lines 1861-1865
ModeLevelingExit ==
    /\ rd.pc = "wl_exit"
    /\ rd' = [exit_training_mode(rd, "wltm") EXCEPT
                 !.pc = IF FailFastReturn(rd.keep, rd.good)
                        THEN "returned" ELSE "wl_dq"]
    /\ UNCHANGED <<training_vars, flow, wr, eye_helper>>

\* lines 1872-1880: DQ write training of the modules of the rank, then the
\* next rank
ModeWriteDq ==
    /\ rd.pc = "wl_dq"
    /\ \E trained \in BOOLEAN :
          \E good \in {rd.good /\ trained} :
             rd' = [rd EXCEPT
                       !.good = good,
                       !.rank = @ + 1,
                       !.pc = IF FailFastReturn(rd.keep, good)
                                 \/ rd.rank + 1 >= ReadRanks
                              THEN "returned" ELSE "wl_enter"]
    /\ UNCHANGED <<training_vars, flow, wr, eye_helper>>

NextModes ==
    \/ ModeCsEnter
    \/ ModeCsSweep
    \/ ModeCsExit
    \/ ModeCaEnter
    \/ ModeCaExit
    \/ ModeReadEnter
    \/ ModeReadModule
    \/ ModeReadExit
    \/ ModeLevelingEnter
    \/ ModeLevelingModule
    \/ ModeLevelingExit
    \/ ModeWriteDq

SpecModes == InitModes /\ [][NextModes]_vars

----------------------------------------------------------------------------
(* Claims on CS and CA training *)

\* check of CA line l is false at every tap of both sweeps
AlwaysFalse(l) ==
    \A sb \in {0, 1}, tap \in 0..(max_delay_taps - 1) :
        ca_check(ca_sim[channel + 1], l, sb, tap, max_delay_taps) = 0

\* C8: when check of a trained CA line is false at every tap of both sweeps,
\* CA training reports failure, the scan of that line is the last scan CA
\* training makes, and under the fail-fast policy the channel training
\* returns false.
C8_DeadLineAbortsCA ==
    (pc = "ret" /\ ca_scanned # << >>
        /\ \E l \in 0..(line_count - 1) : AlwaysFalse(l))
    => /\ CA_success = 0
       /\ \A i \in DOMAIN ca_scanned :
             AlwaysFalse(ca_scanned[i].line) => i = Len(ca_scanned)
       /\ (~keep_going => ret = FALSE)

C8_Witness ==
    /\ pc = "ret" /\ ~keep_going /\ ret = FALSE /\ CS_success = 1
    /\ CA_success = 0
    /\ AlwaysFalse(2) /\ ~AlwaysFalse(0)
    /\ Len(ca_scanned) = 3

\* C9: a second CS training in succession on the same channel stores the same
\* eye edges and coarse delays (and reports the same outcome) as the first.
C9_CSTrainingIdempotent ==
    runs >= 2 => /\ cs_delays[channel] = snap.delays
                 /\ cs_coarse_delays[channel] = snap.coarse
                 /\ CS_success = snap.success

\* a second Host->RCD run after a first one that set the inversion flag and
\* found an eye that the CA cross-check moved
C9_Witness ==
    /\ runs = 2 /\ training_type = HOST_RCD /\ cs_invert[channel] = 1
    /\ CS_success = 1
    /\ cs_delays[channel][0][1] >= max_delay_taps

\* C3 as claimed: in a scan that probes the opposite shift, a tap where the
\* bitmasks check returned under the two shifts share a module is recorded
\* as not working.
C3_OverlapRejected ==
    \A i \in DOMAIN scan.log :
        (scan.log[i].probed
            /\ (scan.log[i].primary \cap scan.log[i].opposite) # {})
        => scan.log[i].works = 0

\* C7 as claimed: the scenario's CS training stores right = 10, left = 20 and
\* programs a coarse delay of 15.
C7_ScenarioWindow ==
    (runs >= 1 /\ pc = "cs")
    => /\ cs_delays[0][0] = <<10, 20>>
       /\ cs_coarse_delays[0][0] = 15
       /\ cs_hw[0][0] = 15

\* the CA line 0 cross-check of CS training sees no window that closes inside
\* the first sweep
CrossCheckQuiet ==
    find_eye_in_helper_arr(CA_scan(ca_sim[1], 0, max_delay_taps), UNSET_DELAY,
                           UNSET_DELAY, max_delay_taps).left >= max_delay_taps

\* C7 amended: the same, provided the CA line 0 cross-check reports no window
\* whose left edge lies in the first sweep.
C7_ScenarioWindowQuietCA ==
    (runs >= 1 /\ pc = "cs" /\ CrossCheckQuiet)
    => /\ cs_delays[0][0] = <<10, 20>>
       /\ cs_coarse_delays[0][0] = 15
       /\ cs_hw[0][0] = 15
       /\ CS_success = 1

C7_Witness ==
    /\ runs = 1 /\ pc = "cs" /\ CrossCheckQuiet
    /\ cs_delays[0][0] = <<10, 20>> /\ cs_hw[0][0] = 15
    /\ ca_sim[1][0] # <<0, 0>>


\* the final_delays of the channels the last CK finalization covered
FinalizedDelays ==
    {cs_final_delays[c][r] : c \in finalized, r \in 0..(ranks - 1)}
        \cup {ca_final_delays[c][l] : c \in finalized, l \in 0..(line_count - 1)}

\* C4: after CK finalization every CS rank and CA line final_delays value of
\* the channels finalized together is >= 0 and the smallest of them is 0.
C4_FinalDelaysNormalised ==
    finalized # {} => /\ \A x \in FinalizedDelays : x >= 0
                      /\ 0 \in FinalizedDelays

\* two channels finalized together, trained to different eyes, all of whose
\* midpoints were positive
C4_Witness ==
    /\ pc = "done" /\ finalized = {0, 1}
    /\ CS_CA_successful = 1 /\ ret = TRUE /\ ~keep_going
    /\ cs_delays[0] # cs_delays[1]
    /\ \A c \in finalized :
          /\ MidPoint(cs_delays[c][0]) > 0
          /\ \A l \in 0..(line_count - 1) : MidPoint(ca_delays[c][l]) > 0
    /\ \E x \in FinalizedDelays : x > 0


----------------------------------------------------------------------------
(* Claims on the read and write data scans *)

\* C5 as claimed: after a fine read scan that succeeded with a closed eye,
\* the read cycle delay and DQ delay left in the PHY are a position at which
\* the scan's check passes.
C5_ReadCenterWorks ==
    (rd.pc = "done" /\ rd.good /\ rd.eye.state = AFTER)
    => rd_cycle_dly_idly_check_if_works(rd.sim, rd.rd_hw, rd.idly_hw, ReadTaps) = 3


\* C6 as claimed: after the final write data scan of module_vref_scan found a
\* closed eye, the write DQ cycle delay and output delay left in the PHY are
\* a position at which the scan's check passes.
C6_WriteCenterWorks ==
    (wr.pc = "done" /\ wr.eye.state = AFTER)
    => write_check(wr.sim, wr.wr_dq_hw, wr.odly_dq_hw, WriteTaps) = 3


\* capacity of helper_arr: 2 * MAX(64, SDRAM_PHY_DELAYS) cells
HelperCapacity(taps) == 2 * MAX(64, taps)

\* C16: the write cursor of the helper array never passes 2*max_delay_taps
\* between two clears, on any CS scan path and any CA scan, and so never
\* passes the capacity of the buffer.
C16_CursorWithinBuffer ==
    /\ scan.peak <= 2 * max_delay_taps
    /\ scan.peak <= HelperCapacity(max_delay_taps)

\* a Host->RCD CS scan that took the polarity inversion retry and then case
\* -1 of the classification, with the cursor at 2*max_delay_taps
C16_Witness ==
    /\ training_type = HOST_RCD /\ runs >= 1 /\ cs_invert[channel] = 1
    /\ Len(scan.log) = 4 * max_delay_taps
    /\ scan.peak = 2 * max_delay_taps


\* C17 as claimed: when the re-scan that ends a CK finalization shows no
\* valid window on some CS rank or CA line, the fail-fast training does not
\* go on as trained: CS_CA_successful is cleared.
C17_RescanFailureIsFatal ==
    (~keep_going /\ rescan.done /\ ~rescan.valid) => CS_CA_successful = 0


\* C18 as claimed: CK finalization is about to run for a channel only when
\* CS training and CA training of that channel both succeeded (stated for
\* the fail-fast policy, where a failure is meant to stop the training).
C18_FinalizeOnlyTrainedChannels ==
    (~keep_going /\ pc = "ck") => (CS_success = 1 /\ CA_success = 1)


\* no DM output delay passes the DM probe for all 16 byte positions
NoDmTapWorks ==
    \A delay \in 0..(WriteTaps - 1) :
        \E byte \in 0..15 : write_dm_lfsr_check(wr.sim, delay, byte) = 0

\* C19 as claimed: when the DM scan ran for a module for which no DM tap
\* passes the probe for all 16 byte positions, the fail-fast write training
\* reports failure.
C19_DmScanFailureReported ==
    (~wr.keep /\ wr.pc = "done" /\ wr.dm_ran /\ NoDmTapWorks) => ~wr.good

\* C20 as claimed: when the final write data scan of module_vref_scan found
\* no closed eye, the fail-fast write training reports failure.
C20_NoWriteEyeReported ==
    (~wr.keep /\ wr.pc = "done" /\ wr.final_ran /\ wr.eye.state # AFTER)
    => ~wr.good


\* C24 as claimed: the opposite shift is probed at every tap of a CS scan
\* unless the topology is RCD->DRAM.
C24_OppositeProbeUnlessRcdDram ==
    \A i \in DOMAIN scan.log :
        scan.log[i].probed <=> (training_type # RCD_DRAM)

\* C24: the opposite shift is probed at every tap of a CS scan unless the
\* context trains Host->RCD; Host->DRAM and RCD->DRAM scans always probe it.
C24_OppositeProbeUnlessHostRcd ==
    \A i \in DOMAIN scan.log :
        scan.log[i].probed <=> (training_type # HOST_RCD)

\* an RCD->DRAM scan met a tap at which the opposite shift answered
C24_Witness ==
    /\ training_type = RCD_DRAM
    /\ \E i \in DOMAIN scan.log :
          scan.log[i].probed /\ scan.log[i].opposite # {}

\* the records of the ranks the last CS training went through
RankLog == {scan.rank_log[i] : i \in DOMAIN scan.rank_log}

\* C26: for each scanned rank, the coarse delay programmed before the CA
\* cross-check is max(0, (right + left) / 2) of the edges found, both reduced
\* by max_delay_taps exactly when the classified scan had tap 0 passing, and
\* the rank's CS delay line holds that many taps when the cross-check starts.
C26_CoarseDelayAtCrossCheck ==
    \A rec \in RankLog :
        (~rec.failed /\ rec.found.scanned) =>
            LET sub == IF rec.found.class = -1 THEN max_delay_taps ELSE 0
                mid == CDiv((rec.found.right - sub) + (rec.found.left - sub), 2)
            IN /\ rec.first = <<rec.found.right - sub, rec.found.left - sub>>
               /\ rec.coarse = (IF mid > 0 THEN mid ELSE 0)
               /\ rec.hw = rec.coarse

\* a scanned rank whose scan had tap 0 passing and whose reduced midpoint is
\* negative, so that the clamp acted
C26_Witness ==
    \E rec \in RankLog :
        /\ ~rec.failed
        /\ rec.found.scanned
        /\ rec.found.class = -1
        /\ rec.first[1] + rec.first[2] < -1
        /\ rec.coarse = 0

\* C27: a rank whose scan shows no window makes CS training report failure at
\* once: the rank's stored edges and coarse delay keep their values, no later
\* rank is gone through, and under fail-fast CA training is not started.
C27_NoWindowStopsCSTraining ==
    /\ \A rec \in RankLog :
          (rec.found.scanned
           /\ (rec.found.left = UNSET_DELAY \/ rec.found.right = UNSET_DELAY))
          => rec.failed
    /\ \A i \in DOMAIN scan.rank_log :
          scan.rank_log[i].failed =>
              /\ i = Len(scan.rank_log)
              /\ CS_success = 0
              /\ pc = "cs" =>
                    /\ cs_delays[channel][scan.rank_log[i].rank]
                          = snap.delays[scan.rank_log[i].rank]
                    /\ cs_coarse_delays[channel][scan.rank_log[i].rank]
                          = snap.coarse[scan.rank_log[i].rank]
    /\ (~keep_going /\ CS_success = 0) => (pc # "ca" /\ ca_scanned = << >>)

\* the first of two ranks showed no window and the second was not scanned
C27_Witness ==
    /\ ~keep_going
    /\ pc = "ret"
    /\ ranks = 2
    /\ training_type # HOST_RCD
    /\ Len(scan.rank_log) = 1
    /\ scan.rank_log[1].failed
    /\ CS_success = 0

\* C28: the cross-check with CA line 0 moves both stored CS edges by
\* max_delay_taps and re-applies the coarse delay exactly when the CA window's
\* left edge minus max_delay_taps is negative, at most once per rank and never
\* when the CA scan shows no window.
C28_CrossCheckCorrection ==
    pc \in {"cs", "ca", "ret"} =>
        \A rec \in RankLog :
            ~rec.failed =>
                LET moved == (rec.ca0.left - max_delay_taps) < 0
                    final == IF moved
                             THEN <<rec.first[1] + max_delay_taps,
                                    rec.first[2] + max_delay_taps>>
                             ELSE rec.first
                    mid == CDiv(final[1] + final[2], 2)
                IN /\ rec.corrections = (IF moved THEN 1 ELSE 0)
                   /\ CAFailed(rec.ca0) => rec.corrections = 0
                   /\ cs_delays[channel][rec.rank] = final
                   /\ cs_coarse_delays[channel][rec.rank] = (IF mid > 0 THEN mid ELSE 0)
                   /\ cs_hw[channel][rec.rank] = cs_coarse_delays[channel][rec.rank]

\* a rank whose edges the cross-check moved by one period
C28_Witness ==
    /\ pc = "cs"
    /\ \E rec \in RankLog :
          /\ ~rec.failed
          /\ rec.corrections = 1
          /\ cs_delays[channel][rec.rank][1] = rec.first[1] + max_delay_taps

\* the window of CA line `address` on rank `rank` of the channel in training,
\* normalised by max_delay_taps
RankWindow(rank, address) ==
    LET eye == find_eye_in_helper_arr(
                   CA_scan(RankSim(ca_sim[channel + 1], ca_rank_skew, rank),
                           address, max_delay_taps),
                   UNSET_DELAY, UNSET_DELAY, max_delay_taps)
    IN <<eye.right - max_delay_taps, eye.left - max_delay_taps>>

\* C29: after a CA training that succeeded, each line's stored <<right, left>>
\* is the intersection over the trained ranks of the normalised windows: the
\* largest right edge and the smallest left edge.
C29_EnvelopeIsIntersection ==
    (pc = "ret" /\ ca_scanned # << >> /\ CA_success = 1) =>
        \A address \in 0..(line_count - 1) :
            LET trained == 0..(CAMaxRank(training_type, ranks) - 1)
                rights == {RankWindow(r, address)[1] : r \in trained}
                lefts == {RankWindow(r, address)[2] : r \in trained}
            IN /\ ca_delays[channel][address][1] \in rights
               /\ \A x \in rights : x <= ca_delays[channel][address][1]
               /\ ca_delays[channel][address][2] \in lefts
               /\ \A x \in lefts : ca_delays[channel][address][2] <= x

\* two ranks were trained and the stored window of line 0 has its right edge
\* from rank 1 and its left edge from rank 0
C29_Witness ==
    /\ pc = "ret"
    /\ CA_success = 1
    /\ Len(ca_scanned) = 2 * line_count
    /\ RankWindow(0, 0) # RankWindow(1, 0)
    /\ ca_delays[channel][0] = <<RankWindow(1, 0)[1], RankWindow(0, 0)[2]>>

\* the smallest eye midpoint of the CS ranks and CA lines of the channels the
\* last CK finalization covered
SmallestMidpoint ==
    LET all == Midpoints(finalized, cs_delays, ca_delays, ranks, line_count)
    IN CHOOSE m \in all : \A x \in all : m <= x

\* CK finalization has just run: the stored edges are those it read
JustFinalized == finalized # {} /\ pc \in {"begin", "done"}

\* C30: the clock delay programmed by CK finalization is
\* (max_delay_taps - min) mod max_delay_taps, min being the smallest CS/CA eye
\* midpoint, and lies in [0, max_delay_taps).
C30_ClockDelayInRange ==
    JustFinalized =>
        \A c \in finalized :
            /\ ck_hw[c] = (max_delay_taps - SmallestMidpoint) % max_delay_taps
            /\ 0 <= ck_hw[c]
            /\ ck_hw[c] < max_delay_taps

\* a finalization that met a negative midpoint and a midpoint of
\* max_delay_taps or more, and moved the clock
C30_Witness ==
    /\ JustFinalized
    /\ SmallestMidpoint < 0
    /\ \E x \in Midpoints(finalized, cs_delays, ca_delays, ranks, line_count) :
          x >= max_delay_taps
    /\ \E c \in finalized : ck_hw[c] > 0

\* C39: when CK finalization has returned, the delay line of every CS rank
\* and of every CA line of the channels it covered holds the tap count stored
\* in final_delays: every re-scan was followed by the restore of its line.
C39_DelayLinesHoldFinalDelays ==
    JustFinalized =>
        \A c \in finalized :
            /\ \A r \in 0..(ranks - 1) : cs_hw[c][r] = cs_final_delays[c][r]
            /\ \A l \in 0..(line_count - 1) : ca_hw[c][l] = ca_final_delays[c][l]

\* a finalization that left a CS rank and a CA line at a tap count above 0,
\* where the re-scan had reset them
C39_Witness ==
    /\ JustFinalized /\ rescan.done
    /\ \E c \in finalized :
          /\ \E r \in 0..(ranks - 1) :
                cs_final_delays[c][r] > 0 /\ cs_hw[c][r] = cs_final_delays[c][r]
          /\ \E l \in 0..(line_count - 1) :
                ca_final_delays[c][l] > 0 /\ ca_hw[c][l] = ca_final_delays[c][l]

\* C21 as claimed: a write leveling in which a bounded search ran out of its
\* range without a working setting returns failure (-1) for the module.
C21_ExhaustedSearchFails ==
    (wr.pc = "wl_returned" /\ wr.exhausted # {}) => wr.returned = -1

\* a CS scan has run and left its statics
CsScanned == scan.log # << >>

\* C25 as claimed: a CS scan sets cs.invert[channel] and takes the
\* inversion retry only in Host->RCD training, and there exactly when tap 0
\* of the initial sweep passes.
C25_InvertWhenAmbiguous ==
    /\ (\E c \in DOMAIN cs_invert : cs_invert[c] # 0) => training_type = HOST_RCD
    /\ CsScanned =>
          (scan.inverted <=>
              (training_type = HOST_RCD
               /\ one_in_helper_arr(scan.initial, max_delay_taps) = -1))

\* C25: a CS scan sets cs.invert[channel] and takes the inversion retry only
\* in Host->RCD training, and there exactly when tap 0 of the initial sweep
\* passes and the leading run of passing taps is shorter than
\* max_delay_taps / 8.
C25_InvertWhenAmbiguousShortRun ==
    /\ (\E c \in DOMAIN cs_invert : cs_invert[c] # 0) => training_type = HOST_RCD
    /\ CsScanned =>
          /\ scan.inverted <=>
                (training_type = HOST_RCD
                 /\ one_in_helper_arr(scan.initial, max_delay_taps) = -1
                 /\ one_stride_helper_arr(scan.initial, max_delay_taps)
                        < CDiv(max_delay_taps, 8))
          /\ scan.inverted => cs_invert[channel] = 1

\* a Host->RCD scan took the retry and set the flag
C25_Witness ==
    /\ training_type = HOST_RCD
    /\ CsScanned
    /\ scan.inverted
    /\ cs_invert[channel] = 1


----------------------------------------------------------------------------
(* Claims on the flow *)

\* C1 as claimed: under the fail-fast policy no stage starts after a stage
\* has failed.
C1_FailFastStopsFlow ==
    ~flow.keep =>
        \A i \in DOMAIN flow.ev, j \in DOMAIN flow.ev :
            (i < j /\ flow.ev[i].kind = "fail") => flow.ev[j].kind # "start"

\* stage `stage` of channel ch of context ctx finished before event j
FinishedBefore(stage, ctx, ch, j) ==
    \E i \in 1..(j - 1) :
        /\ flow.ev[i].stage = stage /\ flow.ev[i].ctx = ctx
        /\ flow.ev[i].ch = ch /\ flow.ev[i].kind \in {"ok", "fail"}

\* the channels a CK finalization event covers
EventGroup(e) == IF e.ch = -1 THEN 0..(flow.nch - 1) ELSE {e.ch}

\* C2 as claimed: CA training of a channel starts only after its CS training
\* finished, CK finalization only after CS and CA training of its channels
\* finished, read training only after a CK finalization, write training only
\* after read training.
C2_StageOrder ==
    \A j \in DOMAIN flow.ev :
        flow.ev[j].kind = "start" =>
            LET e == flow.ev[j]
            IN /\ e.stage = "ca" => FinishedBefore("cs", e.ctx, e.ch, j)
               /\ e.stage = "ck" =>
                     \A c \in EventGroup(e) :
                         /\ FinishedBefore("cs", e.ctx, c, j)
                         /\ FinishedBefore("ca", e.ctx, c, j)
               /\ e.stage = "read" =>
                     \E i \in 1..(j - 1) : flow.ev[i].stage = "ck"
               /\ e.stage = "write" => FinishedBefore("read", e.ctx, -1, j)

\* an SPD read the flow made was not acknowledged
SpdNack ==
    \/ ~flow.spd.type_ack
    \/ ~flow.spd.ranks_ack
    \/ ~flow.spd.channels_ack
    \/ (flow.is_rdimm /\ ~flow.spd.rcd_ack)

\* C10 as claimed: once an SPD read has failed, the flow has stopped without
\* running any stage.
C10_TransportFailureStops ==
    (flow.pc # "classify" /\ SpdNack) => (flow.pc = "done" /\ flow.ev = << >>)

\* C10 amended: a failed SPD read makes the parser return its default (UDIMM,
\* 1 rank, CHANNELS channels, manufacturer 0) and the flow goes on to CS/CA
\* training with it, under both policies.
C10_TransportFailureDefaults ==
    flow.pc # "classify" =>
        /\ ~flow.spd.type_ack =>
              /\ ~flow.is_rdimm
              /\ flow.ev # << >> => flow.ev[1].ctx = "host_dram"
        /\ ~flow.spd.ranks_ack => flow.rcd_ranks = 1
        /\ ~flow.spd.channels_ack => flow.rcd_channels = Channels
        /\ (flow.is_rdimm /\ ~flow.spd.rcd_ack) => flow.manufacturer = 0
        /\ flow.ev = << >> => flow.pc = "train"

\* no SPD read was acknowledged and the fail-fast flow ran through write
\* training
C10_Witness ==
    /\ flow.pc = "done" /\ ~flow.keep
    /\ ~flow.spd.type_ack /\ ~flow.spd.ranks_ack /\ ~flow.spd.channels_ack
    /\ flow.spd.type_byte = 1
    /\ flow.ev # << >>
    /\ flow.ev[Len(flow.ev)] = Event("write", "host_dram", -1, "ok")

\* the flow ended inside module enumeration
StoppedInEnumerate ==
    flow.ev # << >> /\ flow.ev[Len(flow.ev)].stage = "enumerate"

Started(stage) ==
    \E i \in DOMAIN flow.ev : flow.ev[i].stage = stage /\ flow.ev[i].kind = "start"

\* C11: under the continue-on-error policy a failure of CS, CA, read or write
\* training never stops the flow: a flow that has ended (other than inside
\* module enumeration) has started CK finalization, enumeration, read
\* training and write training.
C11_KeepGoingRunsAllStages ==
    (flow.keep /\ flow.pc = "done" /\ ~StoppedInEnumerate)
    => /\ Started("ck") /\ Started("enumerate")
       /\ Started("read") /\ Started("write")

\* a continue-on-error run in which CS, CA and read training failed and
\* write training was still started
C11_Witness ==
    /\ flow.keep /\ flow.pc = "done" /\ Started("write")
    /\ \A st \in {"cs", "ca", "read"} :
          \E i \in DOMAIN flow.ev : flow.ev[i].stage = st /\ flow.ev[i].kind = "fail"

\* an RCD->DRAM CS/CA training step has run or is about to run
RcdDramTraining ==
    \/ (flow.ctx = "rcd_dram" /\ flow.pc = "train")
    \/ \E i \in DOMAIN flow.ev : flow.ev[i].ctx = "rcd_dram"

\* the RCD manufacturer ID the SPD read gave back is 0x9D86
ReadBackRambus == flow.spd.rcd_ack /\ flow.spd.rcd_val = 40326

\* C12: in the RDIMM flow, whenever an RCD->DRAM CS/CA training step runs,
\* the RCD->DRAM CS operations are the Rambus-quirk variants if the
\* manufacturer ID read back is 0x9D86; for any other ID they are the
\* defaults at every point of the flow.
C12_RambusQuirkBeforeTraining ==
    /\ (flow.is_rdimm /\ RcdDramTraining /\ ReadBackRambus)
          => flow.rcd_cs = RambusQuirkCsOps
    /\ ~ReadBackRambus => flow.rcd_cs = DefaultCsOps

\* an RDIMM whose RCD answers 0x9D86, with CS training of RCD->DRAM channel
\* 0 started under the quirk operations
C12_Witness ==
    /\ flow.is_rdimm /\ ReadBackRambus /\ flow.rcd_cs = RambusQuirkCsOps
    /\ \E i \in DOMAIN flow.ev :
          flow.ev[i] = Event("cs", "rcd_dram", 0, "start")

----------------------------------------------------------------------------
(* Claims on the eye detection eye_helper *)

\* the samples [0, n) of the eye_helper array
Samples(n) == [it \in 0..(n - 1) |-> HelperAt(eye_helper.arr, it)]

\* C13: find_eye_in_helper_arr called with left and right unset leaves both
\* unset when the samples [0, 2*max) are all zero, and returns right = 0 and
\* left = 2*max when they are all non-zero.
C13_FindEyeAllFalseAllTrue ==
    eye_helper.last.op = "find_eye" =>
        /\ (\A it \in 0..(2 * HelperMax - 1) : Samples(2 * HelperMax)[it] = 0)
              => (eye_helper.last.left = UNSET_DELAY /\ eye_helper.last.right = UNSET_DELAY)
        /\ (\A it \in 0..(2 * HelperMax - 1) : Samples(2 * HelperMax)[it] # 0)
              => (eye_helper.last.right = 0 /\ eye_helper.last.left = 2 * HelperMax)

\* the query answered on a full buffer of non-zero samples
C13_Witness ==
    /\ eye_helper.last.op = "find_eye"
    /\ Len(eye_helper.arr) = 2 * HelperMax
    /\ \A it \in 0..(2 * HelperMax - 1) : Samples(2 * HelperMax)[it] # 0
    /\ eye_helper.last.left = 2 * HelperMax

\* the samples [0, 2*max) hold exactly one run of non-zero values, of length
\* L from index S
OneRun(S, L) ==
    \A it \in 0..(2 * HelperMax - 1) :
        (Samples(2 * HelperMax)[it] # 0) <=> (S <= it /\ it < S + L)

\* C14: when the samples hold exactly one run of non-zero values of length
\* L >= 1 from index S, with 0 < S and S + L < max, find_eye_in_helper_arr
\* returns right = S and left = S + L.
C14_FindEyeSingleRun ==
    eye_helper.last.op = "find_eye" =>
        \A S \in 1..HelperMax, L \in 1..HelperMax :
            (S + L < HelperMax /\ OneRun(S, L))
            => (eye_helper.last.right = S /\ eye_helper.last.left = S + L)

\* a run of two samples from index 1, followed by recorded zeros
C14_Witness ==
    /\ eye_helper.last.op = "find_eye"
    /\ OneRun(1, 2)
    /\ Len(eye_helper.arr) = 2 * HelperMax
    /\ eye_helper.last.right = 1 /\ eye_helper.last.left = 3

\* C15: one_in_helper_arr(max) returns -1 whenever sample 0 is non-zero, +1
\* when sample 0 is zero and some sample of [1, max) is non-zero, and 0
\* otherwise.
C15_OneInThreeValued ==
    eye_helper.last.op = "one_in" =>
        eye_helper.last.value =
            (IF Samples(HelperMax)[0] # 0 THEN -1
             ELSE IF \E it \in 1..(HelperMax - 1) : Samples(HelperMax)[it] # 0
             THEN 1 ELSE 0)

\* sample 0 and a later sample are both non-zero, and the answer is -1
C15_Witness ==
    /\ eye_helper.last.op = "one_in"
    /\ Len(eye_helper.arr) >= 3
    /\ eye_helper.arr[1] # 0 /\ eye_helper.arr[3] # 0
    /\ eye_helper.last.value = -1

\* C33: find_eye_in_helper_arr called with left and right unset reports only
\* the first run of non-zero samples of [0, 2*max): right is the index of
\* the first non-zero sample, left the index of the first zero sample after
\* right, or 2*max when the run reaches index 2*max - 1; samples after the
\* end of that run do not change the answer, and both stay unset when no
\* sample is non-zero.
C33_FindEyeFirstRunOnly ==
    eye_helper.last.op = "find_eye" =>
        LET s == Samples(2 * HelperMax)
            r == eye_helper.last.right
            l == eye_helper.last.left
        IN IF \A it \in 0..(2 * HelperMax - 1) : s[it] = 0
           THEN r = UNSET_DELAY /\ l = UNSET_DELAY
           ELSE /\ r \in 0..(2 * HelperMax - 1)
                /\ s[r] # 0
                /\ \A it \in 0..(r - 1) : s[it] = 0
                /\ l \in (r + 1)..(2 * HelperMax)
                /\ \A it \in r..(l - 1) : s[it] # 0
                /\ l < 2 * HelperMax => s[l] = 0

\* the query answered on a buffer with two runs, the second of which reaches
\* the last sample: the answer is the first run
C33_Witness ==
    /\ eye_helper.last.op = "find_eye"
    /\ Len(eye_helper.arr) = 2 * HelperMax
    /\ eye_helper.arr[2 * HelperMax] # 0
    /\ eye_helper.last.right = 1
    /\ eye_helper.last.left = 3
    /\ eye_helper.arr[5] # 0

----------------------------------------------------------------------------
(* Claims on the read training loop *)

\* a rank whose read-back check failed
CheckFailed(i) == rd.log[i].check = "fail"

\* the ranks the loops of sdram_ddr5_read_training visit
AllRanksVisited == Len(rd.log) = rd.channels * rd.ranks

\* C22 as stated: a failed read-back check never aborts, whatever the
\* policy: once the flow has ended, every rank of every channel was
\* read-trained and write training was entered.
C22_ReadCheckFailureNeverAborts ==
    (rd.pc = "done" /\ \E i \in DOMAIN rd.log : CheckFailed(i))
    => (AllRanksVisited /\ rd.write_started)

\* C22: a failed read-back check only happens where the read-back check is
\* enabled, it is recorded and the remaining modules of the rank are still
\* checked. Under the continue-on-error policy the later ranks and channels
\* are still read-trained, read training returns success and write training
\* is entered. Under the fail-fast policy the failed rank is the last one
\* visited, read training returns failure and write training is not entered.
C22_ReadCheckFailureByPolicy ==
    \A i \in DOMAIN rd.log :
        CheckFailed(i) =>
            /\ rd.read_back_check
            /\ ~rd.good
            /\ rd.log[i].modules = ReadModules
            /\ rd.keep =>
                  /\ rd.pc \in {"return", "write", "done"} => AllRanksVisited
                  /\ rd.pc \in {"write", "done"} => rd.returned
                  /\ rd.pc = "done" => rd.write_started
            /\ ~rd.keep =>
                  /\ i = Len(rd.log)
                  /\ rd.pc \in {"return", "done"}
                  /\ ~rd.write_started
                  /\ rd.pc = "done" => ~rd.returned

\* a fail-fast run in which the read-back check of the first rank failed
\* with ranks still to train, and read training has returned
C22_Witness ==
    /\ ~rd.keep /\ rd.pc = "done"
    /\ rd.channels * rd.ranks > 1
    /\ Len(rd.log) = 1 /\ rd.log[1].training = "ok" /\ CheckFailed(1)

----------------------------------------------------------------------------
(* Claims on what a failed stage leaves behind *)

\* the stage whose return is the i-th recorded one failed
StageFailed(i) == flow.rets[i].failed

\* C23 as stated: under the continue-on-error policy a stage that failed is
\* told from one that succeeded by the value it returned or by the success
\* flag of its context.
C23_KeepGoingLatchesFailure ==
    flow.keep =>
        \A i \in DOMAIN flow.rets :
            StageFailed(i) => (~flow.rets[i].returned \/ flow.rets[i].flag = 0)

\* C23: under the continue-on-error policy a stage failure is not latched:
\* every CS/CA, read and write stage returns success and the success flag of
\* every context stays set, whether or not the stage failed. Under the
\* fail-fast policy a failed stage returns failure, and a failed CS/CA
\* stage of a host context clears the flag of that context.
C23_KeepGoingReturnsSuccess ==
    /\ flow.keep =>
          /\ \A c \in DOMAIN flow.ok : flow.ok[c] = 1
          /\ \A i \in DOMAIN flow.rets :
                flow.rets[i].returned /\ flow.rets[i].flag = 1
    /\ ~flow.keep =>
          \A i \in DOMAIN flow.rets :
              /\ flow.rets[i].returned = ~StageFailed(i)
              /\ (StageFailed(i) /\ flow.rets[i].stage = "cs_ca"
                  /\ flow.rets[i].ctx # "rcd_dram") => flow.rets[i].flag = 0

\* a continue-on-error run in which a CS/CA stage, read training and write
\* training all failed and all returned success
C23_Witness ==
    /\ flow.keep /\ flow.pc = "done"
    /\ \A st \in {"cs_ca", "read", "write"} :
          \E i \in DOMAIN flow.rets :
              /\ flow.rets[i].stage = st /\ StageFailed(i)
              /\ flow.rets[i].returned /\ flow.rets[i].flag = 1

----------------------------------------------------------------------------
(* Claims on the write Vref sweep *)

\* the widths the sweep of the module met, by Vref
SweptWidths ==
    LET widths == VrefWidths(wr.sim, WriteTaps, wr.write_strobe_cycle, 50)
    IN [v \in VrefRange |-> widths[v - 49]]

\* C31: when the write Vref sweep has selected a Vref value, the eye width
\* the sweep met at that value is the largest width it met at any value.
C31_SelectedVrefHasWidestEye ==
    (wr.pc = "final" /\ wr.best_vref # -1)
    => \E width \in {SweptWidths} :
          \A v \in VrefRange : width[v] <= width[wr.best_vref]

\* lines 1717-1721: the values of _width with which the sweep indexes
\* eye_width_range
WidthIndexes(width) == UNION {0..(width[v] - 1) : v \in VrefRange}

\* C38: every index the write Vref sweep uses on eye_width_range lies in
\* [0, SDRAM_PHY_DELAYS), whatever eye the write data scan returned.
C38_WidthIndexInBounds ==
    wr.pc = "final"
    => \E width \in {SweptWidths} :
          \A _width \in WidthIndexes(width) : _width \in 0..(WriteTaps - 1)

----------------------------------------------------------------------------
(* Claims on the fine read scan *)

\* the fine read scan of the module has run
ReadScanned == rd.pc = "done" /\ rd.preamble_cycle # -1

\* the scan starts one cycle before the preamble cycle
ScanFirst == PullBack(rd.preamble_cycle)

\* the position of the PHY when the loop counters stand at pos
ScanHwPos(pos) ==
    (DelayLine(ScanFirst) + ((pos \div ReadTaps) - ScanFirst)) * ReadTaps
    + (pos % ReadTaps)

\* every readout of the serial patterns and of the seed pairs matched at pos
Matched(pos) ==
    \A i \in 0..(ReadRepetitions - 1) :
        /\ compare_serial(rd.sim, ScanHwPos(pos), i)
        /\ compare(rd.sim, ScanHwPos(pos), i)

\* the serial readouts matched at pos and some LFSR readout did not
SerialOnly(pos) ==
    /\ \A i \in 0..(ReadRepetitions - 1) : compare_serial(rd.sim, ScanHwPos(pos), i)
    /\ \E i \in 0..(ReadRepetitions - 1) : ~compare(rd.sim, ScanHwPos(pos), i)

ScanLast == MaxReadCycleDelay * ReadTaps - 1

\* C32: the eye of the fine read scan holds only positions at which every
\* repetition of the serial check and of the LFSR check matched: no position
\* before its start matched in full, every position from its start up to its
\* end did, and the scan closes the eye at the first position that did not,
\* a position where only the serial check passed included.
C32_WorksNeedsBothChecks ==
    ReadScanned =>
        /\ rd.eye.state = BEFORE =>
              \A p \in (ScanFirst * ReadTaps)..ScanLast : ~Matched(p)
        /\ rd.eye.state # BEFORE =>
              /\ \A p \in (ScanFirst * ReadTaps)..(rd.eye.start - 1) : ~Matched(p)
              /\ Matched(rd.eye.start)
        /\ rd.eye.state = INSIDE =>
              \A p \in rd.eye.start..ScanLast : Matched(p)
        /\ rd.eye.state = AFTER =>
              /\ \A p \in rd.eye.start..(rd.eye.end - 1) : Matched(p)
              /\ ~Matched(rd.eye.end)

\* a scan whose eye was closed by a position where only the serial check
\* passed, and that skipped such a position before the eye
C32_Witness ==
    /\ ReadScanned /\ rd.eye.state = AFTER
    /\ SerialOnly(rd.eye.end)
    /\ rd.eye.start > ScanFirst * ReadTaps /\ SerialOnly(rd.eye.start - 1)

\* the read cycle delay the PHY holds when the sweep ran to its last cycle
SweepEndHw == DelayLine(ScanFirst) + (MaxReadCycleDelay - ScanFirst)

\* the delay lines stand where the sweep left them and no centre was computed
NothingProgrammed ==
    rd.rd_hw = SweepEndHw /\ rd.idly_hw = ReadTaps /\ rd.eye.center = -1

\* C37 as stated: a fine read scan whose eye never closes inside the sweep
\* is treated as failed and programs no read delay, and a scan that succeeds
\* has seen a failing position after the first working one.
C37_OpenEyeFails ==
    ReadScanned =>
        /\ rd.eye.state = INSIDE => (~rd.good /\ NothingProgrammed)
        /\ rd.good => rd.eye.state = AFTER

\* C37: a fine read scan whose eye never closes inside the sweep programs no
\* read delay; it returns failure in the fail-fast build and success in the
\* keep-going build, and a scan that returns success in the fail-fast build
\* has seen a failing position after the first working one.
C37_OpenEyeFailsUnlessKeepGoing ==
    ReadScanned =>
        /\ rd.eye.state # AFTER => (rd.good = rd.keep /\ NothingProgrammed)
        /\ (rd.good /\ ~rd.keep) => rd.eye.state = AFTER

\* a keep-going scan whose passing run reached the last scanned position: it
\* returned success and left the delay lines at the end of the sweep
C37_Witness ==
    /\ ReadScanned /\ rd.keep /\ rd.good
    /\ rd.eye.state = INSIDE /\ rd.eye.start < ScanLast
    /\ Matched(ScanLast)
    /\ NothingProgrammed

----------------------------------------------------------------------------
(* Claims on the WICA search *)

\* the WICA search of the module has run
WicaSearched == wr.wica_written # << >>

\* C34: internal write leveling writes the WICA operands 0, 1, 2, ... to MR3
\* in that order, every operand before the last one written failed a check,
\* the search goes on to the next operand unless the one just written passed
\* every check or was the operand 6, and no operand outside [0, 7) is
\* written.
C34_WicaSearchOrder ==
    WicaSearched =>
        LET n == Len(wr.wica_written)
        IN /\ \A i \in 1..n : wr.wica_written[i] = i - 1
           /\ \A i \in 1..n : wr.wica_written[i] \in 0..(WicaOperands - 1)
           /\ \A i \in 1..(n - 1) :
                 wr.wica_passed[wr.wica_written[i]] < WicaRepetitions
           /\ \/ wr.wica_passed[wr.wica_written[n]] = WicaRepetitions
              \/ wr.wica_written[n] = WicaOperands - 1
           /\ wr.mr3_wica = wr.wica_written[n]

\* a search that skipped operands whose last check failed and stopped at
\* operand 3, short of the end of the range, with later operands that would
\* have passed too
C34_Witness ==
    /\ WicaSearched
    /\ wr.wica_written = <<0, 1, 2, 3>>
    /\ wr.wica_passed[2] = WicaRepetitions - 1
    /\ wr.wica_passed[3] = WicaRepetitions
    /\ wr.wica_passed[4] = WicaRepetitions

----------------------------------------------------------------------------
(* Claims on termination *)

\* C35: every run of the calibration flow ends: whatever the hardware
\* answers in the stages and in the sweeps of the write stage, the flow
\* reaches its last line or an early return after finitely many steps.
C35_FlowTerminates == <>(flow.pc = "done")

\* a run that ended after both sweeps went to their limits: the edge search
\* stopped at MAX_WRITE_CYCLE_DELAY, and the data scan left its loop with
\* no eye opened, which only the cycle limit allows
C35_Witness ==
    /\ flow.pc = "done" /\ wr.pc = "swept"
    /\ wr.transition_cycle = MaxWriteCycleDelay
    /\ wr.eye_state = BEFORE
    /\ Len(flow.ev) > 0 /\ flow.ev[Len(flow.ev)].stage = "write"

----------------------------------------------------------------------------
(* Claims on the CA window *)

\* CA training of the channel has returned success
CATrained == pc = "ret" /\ ca_scanned # << >> /\ CA_success = 1

\* C36: after a CA training that reported success, every trained address line
\* has a stored window with right <= left, a window common to the trained ranks.
C36_StoredWindowNotEmpty ==
    CATrained =>
        \A address \in 0..(line_count - 1) :
            ca_delays[channel][address][1] <= ca_delays[channel][address][2]

----------------------------------------------------------------------------
(* Claims on the training modes *)

\* C40: when a function that enters a training mode returns, the device is
\* in no training mode, and every entry it made is followed by an exit of the
\* same mode, on the paths that succeeded and on those that failed.
C40_ModeExitedBeforeReturn ==
    rd.pc = "returned" =>
        /\ rd.modes = {}
        /\ rd.events # << >>
        /\ \A i \in DOMAIN rd.events :
              rd.events[i][1] = "enter" =>
                  \E j \in DOMAIN rd.events :
                      j > i /\ rd.events[j] = <<"exit", rd.events[i][2]>>

\* a fail-fast write training that returned on a write leveling failure of
\* the first module: the mode was entered twice and left before the return
C40_Witness ==
    /\ rd.pc = "returned" /\ rd.stage = "write_training"
    /\ ~rd.keep /\ ~rd.good /\ rd.rank = 0 /\ rd.module = 1
    /\ rd.events = <<<<"enter", "wltm">>, <<"enter", "wltm">>, <<"exit", "wltm">>>>
    /\ rd.modes = {}

====
